---------------------------- MODULE Spec2Model ----------------------------
(***************************************************************************)
(* Too Many Chats (SillyTavern extension): the folder store, the sync      *)
(* engine and the interaction layer, as state machines.                    *)
(*                                                                         *)
(*   Spec      v2.0.2 engine (src/index.js 1-537): folder store, debounced *)
(*             performSync over a proxy view, header and menu handlers.    *)
(*   SpecSync  the same engine over the popups the host can present.       *)
(*   SpecV110  v1.1.0 (src/unnamed/part_000): folder store, in-place       *)
(*             injection into #select_chat_popup, header and menu handlers.*)
(*                                                                         *)
(* Text is a sequence of one-character strings, so that trim() is a real   *)
(* conversion.  Folder ids are the strings generateId() returns, made      *)
(* fresh by a counter.                                                     *)
(***************************************************************************)
EXTENDS Integers, Sequences, FiniteSets, TLC

VARIABLES
    folders,            \* settings.folders: folder id -> record
    characterFolders,   \* settings.characterFolders: scope -> list of folder ids
    characterId,        \* what getCurrentCharacterId() returns
    nextId,             \* number of ids generateId() has handed out
    popups,             \* the host's chat-select popups and what is rendered in them
    menu,               \* the .tmc_ctx context menu in document.body
    syncDebounceTimer,  \* the handle the last setTimeout(performSync) returned; 0 is null
    burst,              \* steps taken since a performSync timeout became pending
    unsaved,            \* a store change not yet followed by saveSettingsDebounced
    timeouts,           \* the setTimeout callbacks that are pending: the handles of
                        \* performSync timeouts; in v1.1.0 the kinds of callback
    version,            \* settings.version as stored; "" when the key is missing
    createdIn,          \* history: the character id under which each id was generated
    last                \* history: the last handler that ran, and whether it threw

vars == <<folders, characterFolders, characterId, nextId, popups, menu,
          syncDebounceTimer, burst, unsaved, timeouts, version, createdIn, last>>

---------------------------------------------------------------------------
(* Bounds of the model *)

\* number of folder ids ever generated
MaxFolders == 2
\* longest chats list a move may produce
MaxChats == 2
\* steps that may run while a sync timer is armed, before it fires
MaxBurst == 1
\* number of folder ids ever generated where the order of folders is examined
MaxCreated == 4

---------------------------------------------------------------------------
(* Values *)

Scopes == {"alice", "bob"}
NoCharacter == "null"
Keys == {"c1", "c2"}
Uncategorized == "uncategorized"
FolderIds == {"folder_" \o ToString(n) : n \in 1..MaxFolders}

\* what prompt() can return: null on cancel, else the typed text
PromptCancel == [ok |-> FALSE, text |-> <<>>]
PromptTexts == {<<>>, <<" ">>, <<" ", "a">>, <<"b", " ">>}
PromptResults == {PromptCancel} \cup {[ok |-> TRUE, text |-> t] : t \in PromptTexts}

\* JavaScript truthiness of a prompt result / of a string
Truthy(n) == n.ok /\ n.text # <<>>

RECURSIVE TrimLeft(_)
TrimLeft(t) == IF t # <<>> /\ Head(t) = " " THEN TrimLeft(Tail(t)) ELSE t

RECURSIVE TrimRight(_)
TrimRight(t) ==
    IF t # <<>> /\ t[Len(t)] = " " THEN TrimRight(SubSeq(t, 1, Len(t) - 1)) ELSE t

\* String.prototype.trim
Trim(t) == TrimRight(TrimLeft(t))

---------------------------------------------------------------------------
(* Helpers over JavaScript objects and arrays *)

Has(obj, k) == k \in DOMAIN obj
Put(obj, k, v) == [x \in DOMAIN obj \cup {k} |-> IF x = k THEN v ELSE obj[x]]
Delete(obj, k) == [x \in DOMAIN obj \ {k} |-> obj[x]]

Range(seq) == {seq[i] : i \in 1..Len(seq)}

\* Array.prototype.indexOf, 1-based; 0 when absent
IndexOf(seq, x) ==
    IF x \in Range(seq) THEN CHOOSE i \in 1..Len(seq) :
                                 seq[i] = x /\ \A j \in 1..(i - 1) : seq[j] # x
    ELSE 0

\* splice(idx, 1)
Splice(seq, i) == SubSeq(seq, 1, i - 1) \o SubSeq(seq, i + 1, Len(seq))

\* const idx = a.indexOf(x); if (idx > -1) a.splice(idx, 1)
RemoveFirst(seq, x) == IF IndexOf(seq, x) > 0 THEN Splice(seq, IndexOf(seq, x)) ELSE seq

\* settings.characterFolders[characterId] || []
ListOr(cf, cid) == IF Has(cf, cid) THEN cf[cid] ELSE <<>>

---------------------------------------------------------------------------
(* FOLDER DATA, v2.0.2.  A store operation takes the settings object       *)
(* s = [folders, characterFolders] and the current character id, and       *)
(* yields the settings after it, with whether it called saveSettings()     *)
(* and scheduleSync().                                                     *)

Settings == [folders |-> folders, characterFolders |-> characterFolders]

\* an early return: nothing written, nothing requested
NoOp(s) ==
    [folders |-> s.folders, characterFolders |-> s.characterFolders,
     save |-> FALSE, sync |-> FALSE]

\* a write that returns without saveSettings()
WrittenUnsaved(f, cf) ==
    [folders |-> f, characterFolders |-> cf, save |-> FALSE, sync |-> TRUE]

\* a write that saves and returns without scheduleSync()
WrittenUnsynced(f, cf) ==
    [folders |-> f, characterFolders |-> cf, save |-> TRUE, sync |-> FALSE]

\* a write followed by saveSettings() and scheduleSync()
Written(f, cf) == [folders |-> f, characterFolders |-> cf, save |-> TRUE, sync |-> TRUE]

\* generateId(): 'folder_' + Date.now() + '_' + random, never seen before
generateId(n) == "folder_" \o ToString(n + 1)

createFolder(s, cid, folderId, name) ==
    IF name = <<>> \/ Trim(name) = <<>> THEN NoOp(s)
    ELSE IF cid = NoCharacter THEN NoOp(s)
    ELSE LET existingCount == Len(ListOr(s.characterFolders, cid))
             folder == [name |-> Trim(name), chats |-> <<>>,
                        collapsed |-> FALSE, order |-> existingCount]
         IN  Written(Put(s.folders, folderId, folder),
                     Put(s.characterFolders, cid,
                         Append(ListOr(s.characterFolders, cid), folderId)))

\* a rename that stores the text as typed, blank or not
renameFolderAsTyped(s, folderId, newName) ==
    IF Has(s.folders, folderId)
    THEN Written([s.folders EXCEPT ![folderId].name = newName], s.characterFolders)
    ELSE NoOp(s)

renameFolder(s, folderId, newName) ==
    IF newName = <<>> \/ Trim(newName) = <<>> THEN NoOp(s)
    ELSE IF Has(s.folders, folderId)
         THEN Written([s.folders EXCEPT ![folderId].name = Trim(newName)],
                      s.characterFolders)
         ELSE NoOp(s)

deleteFolder(s, cid, folderId) ==
    IF cid = NoCharacter THEN NoOp(s)
    ELSE Written(Delete(s.folders, folderId),
                 IF Has(s.characterFolders, cid)
                 THEN [s.characterFolders EXCEPT
                          ![cid] = RemoveFirst(s.characterFolders[cid], folderId)]
                 ELSE s.characterFolders)

\* for (const fid of allFolderIds) { remove fileName from folders[fid].chats }
RECURSIVE RemoveFromFolders(_, _, _)
RemoveFromFolders(f, ids, fileName) ==
    IF ids = <<>> THEN f
    ELSE RemoveFromFolders(
             IF Has(f, Head(ids))
             THEN [f EXCEPT ![Head(ids)].chats = RemoveFirst(f[Head(ids)].chats, fileName)]
             ELSE f,
             Tail(ids), fileName)

moveChat(s, cid, fileName, targetFolderId) ==
    IF cid = NoCharacter THEN NoOp(s)
    ELSE LET removed == RemoveFromFolders(s.folders, ListOr(s.characterFolders, cid),
                                          fileName)
         IN  Written(IF targetFolderId # Uncategorized /\ Has(removed, targetFolderId)
                     THEN [removed EXCEPT ![targetFolderId].chats = Append(@, fileName)]
                     ELSE removed,
                     s.characterFolders)

\* the first listed folder that has a record and holds fileName
RECURSIVE FirstHolding(_, _, _)
FirstHolding(f, ids, fileName) ==
    IF ids = <<>> THEN Uncategorized
    ELSE IF Has(f, Head(ids)) /\ fileName \in Range(f[Head(ids)].chats) THEN Head(ids)
    ELSE FirstHolding(f, Tail(ids), fileName)

getFolderForChat(s, cid, fileName) ==
    IF cid = NoCharacter THEN Uncategorized
    ELSE FirstHolding(s.folders, ListOr(s.characterFolders, cid), fileName)

\* a toggle that flips the flag of every folder
toggleCollapsedAll(s, fid) ==
    IF Has(s.folders, fid)
    THEN Written([x \in DOMAIN s.folders |-> [s.folders[x] EXCEPT !.collapsed = ~@]],
                 s.characterFolders)
    ELSE NoOp(s)

\* the .tmc_header_left click handler of a folder header
toggleCollapsed(s, fid) ==
    IF Has(s.folders, fid)
    THEN Written([s.folders EXCEPT ![fid].collapsed = ~@], s.characterFolders)
    ELSE NoOp(s)

---------------------------------------------------------------------------
(* The host DOM.  A popup holds the host's chat blocks, and what the sync  *)
(* engine put into it: #tmc_proxy_root with its sections, .tmc_add_btn.    *)

PopupIds == <<"shadow_select_chat_popup", "select_chat_popup">>

\* a host .select_chat_block: its file_name attribute, title, first text line
Block(fileName, title, text) == [file_name |-> fileName, title |-> title, text |-> text]

\* which containers a popup has: a header row (.shadow_select_chat_popup_header
\* or h3), a search input, a .shadow_select_chat_popup_body
FullLayout == [header |-> TRUE, search |-> TRUE, body |-> TRUE]
BareLayout == [header |-> FALSE, search |-> FALSE, body |-> FALSE]

NoRoot == [present |-> FALSE, position |-> "", text |-> <<>>, groups |-> <<>>]

NoPopup ==
    [exists |-> FALSE, displayed |-> FALSE,
     layout |-> BareLayout,
     blocks |-> <<>>, root |-> NoRoot, addBtn |-> FALSE]

\* popup.querySelectorAll('.select_chat_block'), in document order: the
\* proxies inside #tmc_proxy_root, which sits above the host's list, then the
\* host's blocks.  A proxy has a title and no file_name attribute.
RECURSIVE Flatten(_)
Flatten(groups) ==
    IF groups = <<>> THEN <<>> ELSE Head(groups).items \o Flatten(Tail(groups))

ProxyElement(proxy) ==
    [proxy |-> TRUE, file_name |-> "", title |-> proxy.fileName,
     text |-> proxy.html, element |-> 0]

SelectChatBlocks(p) ==
    [i \in 1..Len(Flatten(p.root.groups)) |-> ProxyElement(Flatten(p.root.groups)[i])]
    \o [i \in 1..Len(p.blocks) |->
           [proxy |-> FALSE, file_name |-> p.blocks[i].file_name,
            title |-> p.blocks[i].title, text |-> p.blocks[i].text, element |-> i]]

IsNative(e) == ~e.proxy

\* '.select_chat_block', the proxies of an earlier pass included
AnyBlocks(p) == SelectChatBlocks(p)

\* '.select_chat_block:not(.tmc_proxy_block)'
NativeBlocks(p) == SelectSeq(SelectChatBlocks(p), IsNative)

\* getAttribute('file_name') || title || innerText.split('\n')[0].trim()
FileNameOf(e) ==
    IF e.file_name # "" THEN e.file_name ELSE IF e.title # "" THEN e.title ELSE e.text

HasFileName(d) == d.fileName # ""

\* nativeBlocks.map(...).filter(d => d.fileName)
ChatData(p) ==
    LET blocks == NativeBlocks(p)
    IN  SelectSeq([i \in 1..Len(blocks) |->
                      [element |-> blocks[i].element, fileName |-> FileNameOf(blocks[i]),
                       html |-> blocks[i].text]],
                  HasFileName)

\* popups.find(p => p && getComputedStyle(p).display !== 'none')
ActivePopup(dom) ==
    IF dom[PopupIds[1]].exists /\ dom[PopupIds[1]].displayed THEN PopupIds[1]
    ELSE IF dom[PopupIds[2]].exists /\ dom[PopupIds[2]].displayed THEN PopupIds[2]
    ELSE "none"

---------------------------------------------------------------------------
(* SYNC ENGINE, v2.0.2 *)

\* a folder section whose content is shown whatever the folder's flag says
createFolderDOMExpanded(fid, folder) ==
    [id |-> fid, collapsed |-> FALSE,
     items |-> <<>>, count |-> 0, hidden |-> FALSE]

\* createFolderDOM(fid, folder): a .tmc_section whose header handlers close
\* over fid, with folder.name rendered and .tmc_content hidden when collapsed
createFolderDOM(fid, folder) ==
    [id |-> fid, collapsed |-> folder.collapsed,
     items |-> <<>>, count |-> 0, hidden |-> FALSE]

createUncategorizedDOM ==
    [id |-> Uncategorized, collapsed |-> FALSE,
     items |-> <<>>, count |-> 0, hidden |-> FALSE]

\* folderIds.forEach(fid => { if (!folder) return; newTree.appendChild(section) })
RECURSIVE FolderSections(_, _)
FolderSections(f, folderIds) ==
    IF folderIds = <<>> THEN <<>>
    ELSE (IF Has(f, Head(folderIds))
          THEN <<createFolderDOM(Head(folderIds), f[Head(folderIds)])>>
          ELSE <<>>) \o FolderSections(f, Tail(folderIds))

\* every folder id of the store, whatever the character
RECURSIVE SeqOf(_)
SeqOf(S) == IF S = {} THEN <<>> ELSE LET x == CHOOSE y \in S : TRUE IN <<x>> \o SeqOf(S \ {x})

SyncAllFolderIds(s, cid) == SeqOf(DOMAIN s.folders)

\* the folder ids whose sections a pass creates under character cid
SyncFolderIds(s, cid) == IF cid = NoCharacter THEN <<>> ELSE ListOr(s.characterFolders, cid)

\* createProxyBlock(chat)
createProxyBlock(chat) ==
    [fileName |-> chat.fileName, html |-> chat.html, element |-> chat.element]

\* a distribution that fills every container from the last chat to the first
DistributeBackwards(sections, chatData, s, cid) ==
    LET ids == {sections[i].id : i \in 1..Len(sections)}
        Container(chat) ==
            LET fid == getFolderForChat(s, cid, chat.fileName)
            IN  IF fid \in ids THEN fid ELSE Uncategorized
        Fill(section) ==
            LET InSection(chat) == Container(chat) = section.id
                mine == SelectSeq(chatData, InSection)
            IN  [section EXCEPT
                    !.items = [i \in 1..Len(mine) |->
                                  createProxyBlock(mine[Len(mine) + 1 - i])],
                    !.count = Len(mine),
                    !.hidden = (section.id = Uncategorized /\ Len(mine) = 0)]
    IN  [i \in 1..Len(sections) |-> Fill(sections[i])]

\* chatData.forEach: the container is folderContents[fid], else uncategorized;
\* then the count badge, and the uncategorized section hidden when it is empty
Distribute(sections, chatData, s, cid) ==
    LET ids == {sections[i].id : i \in 1..Len(sections)}
        Container(chat) ==
            LET fid == getFolderForChat(s, cid, chat.fileName)
            IN  IF fid \in ids THEN fid ELSE Uncategorized
        Fill(section) ==
            LET InSection(chat) == Container(chat) = section.id
                mine == SelectSeq(chatData, InSection)
            IN  [section EXCEPT
                    !.items = [i \in 1..Len(mine) |-> createProxyBlock(mine[i])],
                    !.count = Len(mine),
                    !.hidden = (section.id = Uncategorized /\ Len(mine) = 0)]
    IN  [i \in 1..Len(sections) |-> Fill(sections[i])]

\* where a new #tmc_proxy_root goes: after the search bar's container, else
\* first in .shadow_select_chat_popup_body, else first in the popup itself
RootPosition(layout) ==
    IF layout.search THEN "afterSearch"
    ELSE IF layout.body THEN "bodyFirst" ELSE "popupFirst"

\* injectAddButton(popup)
injectAddButton(p) == IF p.addBtn THEN p ELSE [p EXCEPT !.addBtn = p.layout.header]

\* one pass over popup p
SyncPopup(p, s, cid) ==
    LET chatData == ChatData(p)
        position == IF p.root.present THEN p.root.position ELSE RootPosition(p.layout)
        sections == FolderSections(s.folders, SyncFolderIds(s, cid))
                        \o <<createUncategorizedDOM>>
        tree == Distribute(sections, chatData, s, cid)
    IN  injectAddButton(
            [p EXCEPT !.root = [present |-> TRUE, position |-> position,
                                text |-> <<>>, groups |-> tree]])

\* a pass over the first popup that exists, displayed or not
performSyncHidden(dom, s, cid) ==
    IF dom[PopupIds[1]].exists
    THEN [dom EXCEPT ![PopupIds[1]] = SyncPopup(dom[PopupIds[1]], s, cid)]
    ELSE dom

\* performSync(): the DOM after the pass
performSync(dom, s, cid) ==
    IF ActivePopup(dom) = "none" THEN dom
    ELSE [dom EXCEPT ![ActivePopup(dom)] = SyncPopup(dom[ActivePopup(dom)], s, cid)]

\* the pass inserted #tmc_proxy_root into the popup element itself: a childList
\* mutation whose target has the popup's id, which the observer answers
SyncObserved(dom) ==
    /\ ActivePopup(dom) # "none"
    /\ ~dom[ActivePopup(dom)].root.present
    /\ RootPosition(dom[ActivePopup(dom)].layout) = "popupFirst"

---------------------------------------------------------------------------
(* CONTEXT MENU, v2.0.2 *)

NoMenu == [open |-> FALSE, fileName |-> "", items |-> <<>>]

\* folderIds.forEach(fid => { const f = settings.folders[fid]; ... f.name ... })
\* throws a TypeError on a listed id that has no record
MenuThrows(s, cid) ==
    \E i \in 1..Len(ListOr(s.characterFolders, cid)) :
        ~Has(s.folders, ListOr(s.characterFolders, cid)[i])

\* the data-fid entries of the menu showContextMenu builds: the folders of the
\* current character, then 'uncategorized'
MenuItems(s, cid) == ListOr(s.characterFolders, cid) \o <<Uncategorized>>

\* showContextMenu(e, fileName): old menus are removed first
showContextMenu(s, cid, fileName) ==
    IF MenuThrows(s, cid) THEN NoMenu
    ELSE [open |-> TRUE, fileName |-> fileName, items |-> MenuItems(s, cid)]

---------------------------------------------------------------------------
(* State after construction: empty settings, no popup, no timer *)

Ran(op, fid, fileName, threw) == [op |-> op, threw |-> threw]

Init ==
    /\ folders = <<>>
    /\ characterFolders = <<>>
    /\ characterId = NoCharacter
    /\ nextId = 0
    /\ popups = [id \in {PopupIds[1], PopupIds[2]} |-> NoPopup]
    /\ menu = NoMenu
    /\ syncDebounceTimer = 0
    /\ burst = 0
    /\ unsaved = FALSE
    /\ timeouts = {}
    /\ version = "2.0.2"
    /\ createdIn = <<>>
    /\ last = [op |-> "init", threw |-> FALSE]

\* clearTimeout(handle): a handle that is not pending is ignored
clearTimeout(pending, handle) == pending \ {handle}

\* setTimeout(performSync, 50) returns a handle it has not returned before.
\* Handles are only ever compared, so they are named by age: the new timeout
\* is 1, and every timeout still pending becomes one older.
setTimeout(pending) ==
    [syncDebounceTimer |-> 1, timeouts |-> {1} \cup {h + 1 : h \in pending}]

\* scheduleSync() without its clearTimeout
scheduleSyncKeep(pending, handle) == setTimeout(pending)

\* a debounce that takes a non-null syncDebounceTimer for a pending timeout
\* and schedules nothing
scheduleSyncOnce(pending, handle) ==
    IF handle # 0 THEN [syncDebounceTimer |-> handle, timeouts |-> pending]
    ELSE setTimeout(pending)

\* scheduleSync(): the handle it stores and the timeouts pending after it
scheduleSync(pending, handle) ==
    setTimeout(IF handle # 0 THEN clearTimeout(pending, handle) ELSE pending)

\* a step may run while a timeout is pending only MaxBurst times before it fires
Bounded == timeouts # {} => burst < MaxBurst

\* what a handler does to the timer: scheduleSync() when sync, else nothing
Schedule(sync) ==
    /\ syncDebounceTimer' =
           IF sync THEN scheduleSync(timeouts, syncDebounceTimer).syncDebounceTimer
           ELSE syncDebounceTimer
    /\ timeouts' = IF sync THEN scheduleSync(timeouts, syncDebounceTimer).timeouts
                   ELSE timeouts
    /\ burst' = IF timeouts # {} THEN burst + 1 ELSE 0

\* the settings a store operation leaves, its save and its sync request
Store(r) ==
    /\ \A fid \in DOMAIN r.folders : Len(r.folders[fid].chats) <= MaxChats
    /\ folders' = r.folders
    /\ characterFolders' = r.characterFolders
    /\ unsaved' = ((unsaved \/ r.folders # folders
                            \/ r.characterFolders # characterFolders) /\ ~r.save)
    /\ Schedule(r.sync)

---------------------------------------------------------------------------
(* The host: character selection and the popup's life *)

\* the popups the host of this specification creates
HostPopups == {PopupIds[1]}

Shown(id) == popups[id].exists /\ popups[id].displayed

\* the host selects another character (or none) and emits CHAT_CHANGED, to
\* which init() subscribed scheduleSync
CharacterChanged(c) ==
    /\ Bounded
    /\ c # characterId
    /\ characterId' = c
    /\ Schedule(TRUE)
    /\ UNCHANGED version
    /\ last' = Ran("CHAT_CHANGED", "", "", FALSE)
    /\ UNCHANGED <<folders, characterFolders, nextId, popups, menu, unsaved, createdIn>>

\* the host adds the popup element to document.body, hidden: the mutation's
\* target is the parent, which the observer callback does not answer
HostInsertPopup(id, layout) ==
    /\ Bounded
    /\ ~popups[id].exists
    /\ popups' = [popups EXCEPT ![id] = [NoPopup EXCEPT !.exists = TRUE,
                                                       !.layout = layout]]
    /\ Schedule(FALSE)
    /\ UNCHANGED version
    /\ last' = Ran("hostInsert", "", "", FALSE)
    /\ UNCHANGED <<folders, characterFolders, characterId, nextId, menu, unsaved,
                   createdIn>>

\* the host fills the chat list and shows the popup: a style mutation on the
\* popup element, which the observer callback answers with scheduleSync
HostShowPopup(id, list) ==
    /\ Bounded
    /\ popups[id].exists /\ ~popups[id].displayed
    /\ popups' = [popups EXCEPT ![id].displayed = TRUE, ![id].blocks = list]
    /\ Schedule(TRUE)
    /\ UNCHANGED version
    /\ last' = Ran("hostShow", "", "", FALSE)
    /\ UNCHANGED <<folders, characterFolders, characterId, nextId, menu, unsaved,
                   createdIn>>

HostHidePopup(id) ==
    /\ Bounded
    /\ Shown(id)
    /\ popups' = [popups EXCEPT ![id].displayed = FALSE]
    /\ Schedule(TRUE)
    /\ UNCHANGED version
    /\ last' = Ran("hostHide", "", "", FALSE)
    /\ UNCHANGED <<folders, characterFolders, characterId, nextId, menu, unsaved,
                   createdIn>>

\* the host replaces the chat list of a shown popup; the observer callback
\* answers only when a mutation's target is a .select_chat_block_wrapper or
\* the popup element, which depends on where the host puts the blocks
HostRenderChats(id, list, seen) ==
    /\ Bounded
    /\ Shown(id)
    /\ list # popups[id].blocks
    /\ popups' = [popups EXCEPT ![id].blocks = list]
    /\ Schedule(seen)
    /\ UNCHANGED version
    /\ last' = Ran("hostRender", "", "", FALSE)
    /\ UNCHANGED <<folders, characterFolders, characterId, nextId, menu, unsaved,
                   createdIn>>

\* a timeout fires and the observer callback, instead of calling
\* scheduleSync(), starts a pass of its own
TimerFiresNested ==
    \E handle \in timeouts :
        /\ popups' = performSync(performSync(popups, Settings, characterId),
                                  Settings, characterId)
        /\ timeouts' = timeouts \ {handle}
        /\ burst' = 0
        /\ UNCHANGED version
        /\ last' = Ran("performSync", "", "", FALSE)
        /\ UNCHANGED <<folders, characterFolders, characterId, nextId, menu, unsaved,
                       syncDebounceTimer, createdIn>>

\* a pass that also drops from every folder the keys no host chat block of
\* the visible popup carries
TimerFiresPruning ==
    \E handle \in timeouts :
        LET Shows(key) ==
                /\ ActivePopup(popups) # "none"
                /\ \E i \in 1..Len(popups[ActivePopup(popups)].blocks) :
                       FileNameOf([popups[ActivePopup(popups)].blocks[i]
                                      EXCEPT !.file_name = @]) = key
        IN  /\ popups' = performSync(popups, Settings, characterId)
            /\ folders' = [fid \in DOMAIN folders |->
                               [folders[fid] EXCEPT !.chats = SelectSeq(@, Shows)]]
            /\ timeouts' = timeouts \ {handle}
            /\ burst' = 0
            /\ UNCHANGED version
            /\ last' = Ran("performSync", "", "", FALSE)
            /\ UNCHANGED <<characterFolders, characterId, nextId, menu, unsaved,
                           syncDebounceTimer, createdIn>>

\* a pending performSync timeout fires: one pass, run to its end; the observer
\* callback for the pass's own mutations runs after it and calls scheduleSync()
TimerFires ==
    \E handle \in timeouts :
        /\ popups' = performSync(popups, Settings, characterId)
        /\ syncDebounceTimer' =
               IF SyncObserved(popups)
               THEN scheduleSync(timeouts \ {handle}, syncDebounceTimer).syncDebounceTimer
               ELSE syncDebounceTimer
        /\ timeouts' =
               IF SyncObserved(popups)
               THEN scheduleSync(timeouts \ {handle}, syncDebounceTimer).timeouts
               ELSE timeouts \ {handle}
        /\ burst' = 0
        /\ UNCHANGED version
        /\ last' = Ran("performSync", "", "", FALSE)
        /\ UNCHANGED <<folders, characterFolders, characterId, nextId, menu, unsaved,
                       createdIn>>

\* document.querySelector('#shadow_select_chat_popup') || ...('#select_chat_popup')
HeartbeatPopup(dom) ==
    IF dom[PopupIds[1]].exists THEN PopupIds[1]
    ELSE IF dom[PopupIds[2]].exists THEN PopupIds[2] ELSE "none"

\* the heartbeat's test: the popup is displayed, its first
\* .select_chat_block_wrapper has children, and the number of host blocks in
\* that wrapper differs from the number of proxies in #tmc_proxy_root
Desynced(dom, nativeCount) ==
    /\ HeartbeatPopup(dom) # "none"
    /\ dom[HeartbeatPopup(dom)].displayed
    /\ nativeCount > 0
    /\ nativeCount # Len(Flatten(dom[HeartbeatPopup(dom)].root.groups))

\* the 1000 ms interval callback; the host decides how many of its blocks sit
\* in the first wrapper (one wrapper per chat, or one for all)
Heartbeat(nativeCount) ==
    /\ Bounded
    /\ HeartbeatPopup(popups) # "none"
    /\ nativeCount \in 1..Len(popups[HeartbeatPopup(popups)].blocks)
    /\ Schedule(Desynced(popups, nativeCount))
    /\ UNCHANGED version
    /\ last' = Ran("heartbeat", "", "", FALSE)
    /\ UNCHANGED <<folders, characterFolders, characterId, nextId, popups, menu, unsaved,
                   createdIn>>

---------------------------------------------------------------------------
(* INTERACTION, v2.0.2: the handlers of what a pass rendered *)

\* const n = prompt(...); if (n) createFolder(n)
PromptCreateUpTo(n, limit) ==
    LET r == IF Truthy(n)
             THEN createFolder(Settings, characterId, generateId(nextId), n.text)
             ELSE NoOp(Settings)
        made == Has(r.folders, generateId(nextId))
    IN  /\ made => nextId < limit
        /\ Store(r)
        /\ nextId' = IF made THEN nextId + 1 ELSE nextId
        /\ createdIn' = IF made THEN Put(createdIn, generateId(nextId), characterId)
                        ELSE createdIn
        /\ UNCHANGED version
        /\ last' = Ran("createFolder", IF made THEN generateId(nextId) ELSE "", "",
                       FALSE)

PromptCreate(n) == PromptCreateUpTo(n, MaxFolders)

\* .tmc_add_btn onclick (stops propagation)
ClickAddBtn(id, n) ==
    /\ Bounded
    /\ Shown(id) /\ popups[id].addBtn
    /\ PromptCreate(n)
    /\ UNCHANGED <<characterId, popups, menu>>

\* the folder sections of the rendered root: their headers carry the handlers
FolderHeaders(id) ==
    {i \in 1..Len(popups[id].root.groups) : popups[id].root.groups[i].id # Uncategorized}

\* .tmc_header_left onclick; the click bubbles to document, where the menu's
\* close listener may already be registered
ClickHeaderLeft(id, i) ==
    /\ Bounded
    /\ Shown(id) /\ i \in FolderHeaders(id)
    /\ Store(toggleCollapsed(Settings, popups[id].root.groups[i].id))
    /\ menu' \in {menu, NoMenu}
    /\ UNCHANGED version
    /\ last' = Ran("toggle", popups[id].root.groups[i].id, "", FALSE)
    /\ UNCHANGED <<characterId, nextId, popups, createdIn>>

\* .tmc_edit onclick: const n = prompt('Rename:', folder.name); if (n) renameFolder(fid, n)
ClickEdit(id, i, n) ==
    /\ Bounded
    /\ Shown(id) /\ i \in FolderHeaders(id)
    /\ Store(IF Truthy(n)
             THEN renameFolder(Settings, popups[id].root.groups[i].id, n.text)
             ELSE NoOp(Settings))
    /\ UNCHANGED version
    /\ last' = Ran("renameFolder", popups[id].root.groups[i].id, "", FALSE)
    /\ UNCHANGED <<characterId, nextId, popups, menu, createdIn>>

\* .tmc_del onclick: if (confirm(...)) deleteFolder(fid)
ClickDel(id, i, confirmed) ==
    /\ Bounded
    /\ Shown(id) /\ i \in FolderHeaders(id)
    /\ Store(IF confirmed
             THEN deleteFolder(Settings, characterId, popups[id].root.groups[i].id)
             ELSE NoOp(Settings))
    /\ UNCHANGED version
    /\ last' = Ran(IF confirmed THEN "deleteFolder" ELSE "deleteCancelled",
                   popups[id].root.groups[i].id, "", FALSE)
    /\ UNCHANGED <<characterId, nextId, popups, menu, createdIn>>

\* oncontextmenu of a proxy that is on screen: showContextMenu(e, fileName)
ContextMenu(id, i, j) ==
    /\ Bounded
    /\ Shown(id) /\ i \in 1..Len(popups[id].root.groups)
    /\ ~popups[id].root.groups[i].hidden /\ ~popups[id].root.groups[i].collapsed
    /\ j \in 1..Len(popups[id].root.groups[i].items)
    /\ LET fileName == popups[id].root.groups[i].items[j].fileName
       IN  /\ menu' = showContextMenu(Settings, characterId, fileName)
           /\ UNCHANGED version
           /\ last' = Ran("showContextMenu", "", fileName,
                          MenuThrows(Settings, characterId))
    /\ Schedule(FALSE)
    /\ UNCHANGED <<folders, characterFolders, characterId, nextId, popups, unsaved,
                   createdIn>>

\* menu.onclick on a data-fid item: moveChat(fileName, item.dataset.fid); menu.remove()
ClickMenuItem(k) ==
    /\ Bounded
    /\ menu.open /\ k \in 1..Len(menu.items)
    /\ Store(moveChat(Settings, characterId, menu.fileName, menu.items[k]))
    /\ menu' = NoMenu
    /\ UNCHANGED version
    /\ last' = Ran("moveChat", menu.items[k], menu.fileName, FALSE)
    /\ UNCHANGED <<characterId, nextId, popups, createdIn>>

\* menu.onclick on .tmc_new: prompt, createFolder; menu.remove()
ClickMenuNew(n) ==
    /\ Bounded
    /\ menu.open
    /\ PromptCreate(n)
    /\ menu' = NoMenu
    /\ UNCHANGED <<characterId, popups>>

\* a click elsewhere reaches the document listener: menu.remove()
DocumentClick ==
    /\ Bounded
    /\ menu.open
    /\ menu' = NoMenu
    /\ Schedule(FALSE)
    /\ UNCHANGED version
    /\ last' = Ran("closeMenu", "", "", FALSE)
    /\ UNCHANGED <<folders, characterFolders, characterId, nextId, popups, unsaved,
                   createdIn>>

---------------------------------------------------------------------------
(* Spec: the v2.0.2 engine under every gesture, over one popup that the    *)
(* host inserts and shows with one chat.                                   *)

Characters == Scopes \cup {NoCharacter}
Sections == 1..(MaxFolders + 1)

StoreLists == { <<Block("c1", "", "one")>> }

Next ==
    \/ \E c \in Characters : CharacterChanged(c)
    \/ \E id \in HostPopups : HostInsertPopup(id, FullLayout)
    \/ \E id \in HostPopups, list \in StoreLists : HostShowPopup(id, list)
    \/ TimerFires
    \/ \E id \in HostPopups, n \in PromptResults : ClickAddBtn(id, n)
    \/ \E id \in HostPopups, i \in Sections : ClickHeaderLeft(id, i)
    \/ \E id \in HostPopups, i \in Sections, n \in PromptResults : ClickEdit(id, i, n)
    \/ \E id \in HostPopups, i \in Sections, confirmed \in BOOLEAN :
           ClickDel(id, i, confirmed)
    \/ \E id \in HostPopups, i \in Sections, j \in 1..3 : ContextMenu(id, i, j)
    \/ \E k \in Sections : ClickMenuItem(k)
    \/ \E n \in PromptResults : ClickMenuNew(n)
    \/ DocumentClick

Spec == Init /\ [][Next]_vars

---------------------------------------------------------------------------
(* Properties of the folder store, checked under Spec *)

\* how often x occurs in seq
Occurrences(seq, x) == Cardinality({i \in 1..Len(seq) : seq[i] = x})

\* the listed folders of scope S that have a record and hold K
Holders(S, K) ==
    {i \in 1..Len(ListOr(characterFolders, S)) :
        /\ Has(folders, ListOr(characterFolders, S)[i])
        /\ K \in Range(folders[ListOr(characterFolders, S)[i]].chats)}

\* the folder id a rendered header closes over
HeaderFid(id, i) == popups[id].root.groups[i].id

StoreUnchanged == UNCHANGED <<folders, characterFolders>>

\* C1 (Exclusivity): in every reachable state, every item key is in the chats
\* list of at most one folder of each scope's folder list, and at most once in
\* that list.
C1_Exclusivity ==
    \A S \in Scopes, K \in Keys :
        /\ Cardinality(Holders(S, K)) <= 1
        /\ \A i \in Holders(S, K) :
               Occurrences(folders[ListOr(characterFolders, S)[i]].chats, K) <= 1

\* C3 (Deletion safety): a confirmed delete of folder F from its header, while
\* the scope that lists F is active, leaves F unlisted and without a record,
\* makes every key F held resolve to 'uncategorized', and changes no other
\* folder's chats.
C3_DeletionSafety ==
    [][\A id \in HostPopups, i \in Sections :
          (/\ ClickDel(id, i, TRUE)
           /\ characterId # NoCharacter
           /\ HeaderFid(id, i) \in Range(ListOr(characterFolders, characterId))
           /\ Has(folders, HeaderFid(id, i)))
          => /\ HeaderFid(id, i) \notin Range(ListOr(characterFolders', characterId))
             /\ ~Has(folders', HeaderFid(id, i))
             /\ \A K \in Range(folders[HeaderFid(id, i)].chats) :
                    getFolderForChat(Settings', characterId, K) = Uncategorized
             /\ \A G \in DOMAIN folders \ {HeaderFid(id, i)} :
                    Has(folders', G) /\ folders'[G].chats = folders[G].chats]_vars

\* C6 (Move postcondition): after a menu click moves key K to a folder F of
\* the active scope that has a record, getFolderForChat(K) is F; after a move
\* to 'uncategorized', getFolderForChat(K) is 'uncategorized'.
C6_MovePostcondition ==
    [][\A k \in Sections :
          (ClickMenuItem(k) /\ characterId # NoCharacter)
          => /\ (/\ menu.items[k] \in Range(ListOr(characterFolders, characterId))
                 /\ Has(folders, menu.items[k]))
                => getFolderForChat(Settings', characterId, menu.fileName) = menu.items[k]
             /\ menu.items[k] = Uncategorized
                => getFolderForChat(Settings', characterId, menu.fileName)
                       = Uncategorized]_vars

\* C8 (Referential integrity): in every reachable state, every folder id
\* listed in any characterFolders[S] has a record in folders.
C8_ReferentialIntegrity ==
    \A S \in DOMAIN characterFolders :
        \A i \in 1..Len(characterFolders[S]) : Has(folders, characterFolders[S][i])

\* the store mutators reachable from the UI
UiMutator ==
    \/ \E id \in HostPopups, n \in PromptResults : ClickAddBtn(id, n)
    \/ \E n \in PromptResults : ClickMenuNew(n)
    \/ \E id \in HostPopups, i \in Sections, n \in PromptResults : ClickEdit(id, i, n)
    \/ \E id \in HostPopups, i \in Sections : ClickDel(id, i, TRUE)
    \/ \E k \in Sections : ClickMenuItem(k)
    \/ \E id \in HostPopups, i \in Sections : ClickHeaderLeft(id, i)

\* C9 (NoActiveScope): while no character is selected, every store mutator
\* reachable from the UI leaves folders and characterFolders unchanged and
\* raises no exception.
C9_NoActiveScope ==
    [][(characterId = NoCharacter /\ UiMutator) => (StoreUnchanged /\ ~last'.threw)]_vars

\* C10 (NotFound): a rename, delete, collapse toggle or move that references a
\* folder id with no record leaves the whole store unchanged.
C10_NotFound ==
    [][/\ \A id \in HostPopups, i \in Sections :
              ((\/ \E n \in PromptResults : ClickEdit(id, i, n)
                \/ ClickDel(id, i, TRUE)
                \/ ClickHeaderLeft(id, i))
               /\ ~Has(folders, HeaderFid(id, i))) => StoreUnchanged
       /\ \A k \in Sections :
              (/\ ClickMenuItem(k)
               /\ menu.items[k] # Uncategorized
               /\ ~Has(folders, menu.items[k])) => StoreUnchanged]_vars

---------------------------------------------------------------------------
(* Properties of the view, checked under Spec *)

\* the folder ids of a list of rendered sections or menu entries
OfferedIds(entries) == Range(entries) \ {Uncategorized}

SectionIds(groups) == [i \in 1..Len(groups) |-> groups[i].id]

\* C4 (Scope isolation): a pass or a menu build that runs while scope B is
\* active renders, counts and offers only folders created under B.
C4_ScopeIsolation ==
    [][/\ (TimerFires /\ ActivePopup(popups) # "none")
          => \A fid \in OfferedIds(SectionIds(popups'[ActivePopup(popups)].root.groups)) :
                 createdIn[fid] = characterId
       /\ \A id \in HostPopups, i \in Sections, j \in 1..3 :
              ContextMenu(id, i, j)
              => \A fid \in OfferedIds(menu'.items) : createdIn[fid] = characterId]_vars

\* a pass has just rendered a folder of the active scope while a folder
\* created under another scope has a record
C4_Witness ==
    /\ last.op = "performSync"
    /\ characterId # NoCharacter
    /\ ActivePopup(popups) # "none"
    /\ OfferedIds(SectionIds(popups[ActivePopup(popups)].root.groups)) # {}
    /\ \E fid \in DOMAIN folders : createdIn[fid] # characterId

---------------------------------------------------------------------------
(* SpecSync: the v2.0.2 sync engine over what the host can do to a popup:  *)
(* either layout, empty lists, blocks without a file_name, hiding and      *)
(* re-rendering; the store is filled by folder creation and moves.         *)

SyncCharacters == {"alice", NoCharacter}
SyncPrompts == {[ok |-> TRUE, text |-> <<" ", "a">>]}

\* the chat lists the host renders: none; a block with a file_name, a block
\* with neither attribute nor text, and a block with a title only
SyncLists ==
    { <<>>,
      <<Block("c2", "", "two"), Block("", "", ""), Block("", "c1", "one")>> }

NextSync ==
    \/ \E c \in SyncCharacters : CharacterChanged(c)
    \/ \E id \in HostPopups, layout \in {FullLayout, BareLayout} :
           HostInsertPopup(id, layout)
    \/ \E id \in HostPopups, list \in SyncLists : HostShowPopup(id, list)
    \/ \E id \in HostPopups : HostHidePopup(id)
    \/ \E id \in HostPopups, list \in SyncLists, seen \in BOOLEAN :
           HostRenderChats(id, list, seen)
    \/ TimerFires
    \/ \E id \in HostPopups, n \in SyncPrompts : ClickAddBtn(id, n)
    \/ \E id \in HostPopups, i \in Sections : ClickHeaderLeft(id, i)
    \/ \E id \in HostPopups, i \in Sections, j \in 1..3 : ContextMenu(id, i, j)
    \/ \E k \in Sections : ClickMenuItem(k)
    \/ \E n \in SyncPrompts : ClickMenuNew(n)
    \/ \E nativeCount \in 1..3 : Heartbeat(nativeCount)

SpecSync == Init /\ [][NextSync]_vars

\* the proxies of a popup's rendered root
Proxies(p) == Flatten(p.root.groups)

\* C2 (Idempotent reconciliation): right after a pass, a second pass over the
\* same store, scope and host blocks yields the same DOM; the rendered root
\* has no duplicated group, no duplicated proxy, and counts that match.
C2_Idempotent ==
    last.op = "performSync" =>
        /\ performSync(popups, Settings, characterId) = popups
        /\ \A id \in DOMAIN popups :
               /\ \A i, j \in 1..Len(popups[id].root.groups) :
                      popups[id].root.groups[i].id = popups[id].root.groups[j].id => i = j
               /\ \A i, j \in 1..Len(Proxies(popups[id])) :
                      Proxies(popups[id])[i].element = Proxies(popups[id])[j].element
                          => i = j
               /\ \A i \in 1..Len(popups[id].root.groups) :
                      popups[id].root.groups[i].count = Len(popups[id].root.groups[i].items)

\* a pass has just rendered two proxies, one of them inside a folder
C2_Witness ==
    /\ last.op = "performSync"
    /\ ActivePopup(popups) # "none"
    /\ Len(Proxies(popups[ActivePopup(popups)])) >= 2
    /\ \E i \in 1..Len(popups[ActivePopup(popups)].root.groups) :
           /\ popups[ActivePopup(popups)].root.groups[i].id # Uncategorized
           /\ popups[ActivePopup(popups)].root.groups[i].count >= 1

\* what a pass finds when the claim's cases happen
NoHostBlocks(dom) == ActivePopup(dom) # "none" /\ dom[ActivePopup(dom)].blocks = <<>>

ContainersMissing(dom) ==
    ActivePopup(dom) # "none" /\ dom[ActivePopup(dom)].layout # FullLayout

---------------------------------------------------------------------------
(* FOLDER MANAGEMENT, v1.1.0 (src/unnamed/part_000).  Callers trim the     *)
(* name and test it before they call createFolder and renameFolder.        *)

Saved(f, cf) == [folders |-> f, characterFolders |-> cf, save |-> TRUE, sync |-> FALSE]

\* Object.keys(settings.folders).filter(id => characterFolders[cid]?.includes(id)).length
FolderCountV110(s, cid) ==
    Cardinality({id \in DOMAIN s.folders : id \in Range(ListOr(s.characterFolders, cid))})

createFolderV110(s, cid, folderId, name) ==
    IF cid = NoCharacter THEN NoOp(s)
    ELSE LET folder == [name |-> IF name = <<>> THEN <<"New Folder">> ELSE name,
                        chats |-> <<>>, collapsed |-> FALSE,
                        order |-> FolderCountV110(s, cid)]
         IN  Saved(Put(s.folders, folderId, folder),
                   Put(s.characterFolders, cid,
                       Append(ListOr(s.characterFolders, cid), folderId)))

renameFolderV110(s, folderId, newName) ==
    IF Has(s.folders, folderId)
    THEN Saved([s.folders EXCEPT ![folderId].name = newName], s.characterFolders)
    ELSE NoOp(s)

deleteFolderV110(s, cid, folderId) ==
    IF cid = NoCharacter \/ ~Has(s.folders, folderId) THEN NoOp(s)
    ELSE Saved(Delete(s.folders, folderId),
               IF Has(s.characterFolders, cid)
               THEN [s.characterFolders EXCEPT
                        ![cid] = RemoveFirst(s.characterFolders[cid], folderId)]
               ELSE s.characterFolders)

\* toggleFolderCollapse(folderId), before its injectFoldersIntoChatHistory()
toggleFolderCollapseV110(s, folderId) ==
    IF Has(s.folders, folderId)
    THEN Saved([s.folders EXCEPT ![folderId].collapsed = ~@], s.characterFolders)
    ELSE NoOp(s)

\* moveChatToFolder(chatFile, targetFolderId), before its injectFoldersIntoChatHistory()
moveChatToFolder(s, cid, chatFile, targetFolderId) ==
    IF cid = NoCharacter THEN NoOp(s)
    ELSE LET removed == RemoveFromFolders(s.folders, ListOr(s.characterFolders, cid),
                                          chatFile)
         IN  Saved(IF targetFolderId # Uncategorized /\ Has(removed, targetFolderId)
                   THEN [removed EXCEPT ![targetFolderId].chats = Append(@, chatFile)]
                   ELSE removed,
                   s.characterFolders)

\* Array.prototype.sort by order, stable: insert id after the ids not above it
RECURSIVE InsertByOrder(_, _, _)
InsertByOrder(f, sorted, id) ==
    IF sorted = <<>> THEN <<id>>
    ELSE IF f[id].order < f[Head(sorted)].order THEN <<id>> \o sorted
    ELSE <<Head(sorted)>> \o InsertByOrder(f, Tail(sorted), id)

RECURSIVE SortByOrder(_, _, _)
SortByOrder(f, ids, sorted) ==
    IF ids = <<>> THEN sorted
    ELSE SortByOrder(f, Tail(ids), InsertByOrder(f, sorted, Head(ids)))

\* getFoldersForCurrentCharacter(): the listed ids that have a record with a
\* name, sorted by order
getFoldersForCurrentCharacter(s, cid) ==
    IF cid = NoCharacter THEN <<>>
    ELSE LET Named(id) == Has(s.folders, id) /\ s.folders[id].name # <<>>
         IN  SortByOrder(s.folders, SelectSeq(ListOr(s.characterFolders, cid), Named),
                         <<>>)

---------------------------------------------------------------------------
(* CHAT HISTORY PANEL INTEGRATION, v1.1.0.  #select_chat_popup holds the   *)
(* host's chat blocks: loose in the chat container, or moved by a pass     *)
(* into a .chat_folder_section.  A block removed with its section is gone  *)
(* from the popup.                                                         *)

NoPopupV110 ==
    [exists |-> FALSE, displayed |-> FALSE, layout |-> BareLayout, blocks |-> <<>>,
     sections |-> <<>>, manageBtn |-> FALSE, listeners |-> FALSE]

IsFolderSection(section) == section.id # Uncategorized
IsUncategorizedSection(section) == section.id = Uncategorized

Reverse(seq) == [i \in 1..Len(seq) |-> seq[Len(seq) + 1 - i]]

\* chatHistoryPopup.querySelectorAll('.select_chat_block'), in document order:
\* folder sections were prepended, the uncategorized section appended
chatBlocksV110(p) ==
    Flatten(SelectSeq(p.sections, IsFolderSection)) \o p.blocks
        \o Flatten(SelectSeq(p.sections, IsUncategorizedSection))

\* chatMap.get(chatFile): the last block that carries the file_name
ChatMapGet(chatBlocks, chatFile) ==
    LET Carries(b) == b.file_name = chatFile
    IN  SelectSeq(chatBlocks, Carries)

\* (folder.chats || []).forEach(chatFile => content.appendChild(chatMap.get(chatFile)))
RECURSIVE FolderItems(_, _, _)
FolderItems(chats, chatBlocks, content) ==
    IF chats = <<>> THEN content
    ELSE LET found == ChatMapGet(chatBlocks, Head(chats))
             Others(b) == b # found[Len(found)]
         IN  FolderItems(Tail(chats), chatBlocks,
                         IF found = <<>> \/ Head(chats) = "" THEN content
                         ELSE Append(SelectSeq(content, Others), found[Len(found)]))

\* folders.forEach(folder => { section, header, content }): appendChild takes
\* a block out of the section that held it
RECURSIVE FolderSectionsV110(_, _, _, _)
FolderSectionsV110(f, ids, chatBlocks, done) ==
    IF ids = <<>> THEN done
    ELSE LET items == FolderItems(f[Head(ids)].chats, chatBlocks, <<>>)
             Kept(b) == b \notin Range(items)
         IN  FolderSectionsV110(f, Tail(ids), chatBlocks,
                 [i \in 1..Len(done) |-> [done[i] EXCEPT !.items = SelectSeq(@, Kept)]]
                 \o <<[id |-> Head(ids), collapsed |-> f[Head(ids)].collapsed,
                       badge |-> Len(f[Head(ids)].chats), items |-> items]>>)

\* injectFoldersIntoChatHistory(): the popup after the pass
injectFoldersIntoChatHistory(p, s, cid) ==
    LET chatBlocks == chatBlocksV110(p)
        folderList == getFoldersForCurrentCharacter(s, cid)
        \* chatBlocks[0].parentElement is in the document only for a loose block
        inDocument == Flatten(SelectSeq(p.sections, IsFolderSection)) = <<>>
                          /\ p.blocks # <<>>
        sections == FolderSectionsV110(s.folders, folderList, chatBlocks, <<>>)
        assigned == {b.file_name : b \in Range(Flatten(sections))}
        Unassigned(b) == b.file_name # "" /\ b.file_name \notin assigned
        uncategorizedBlocks == SelectSeq(chatBlocks, Unassigned)
        Stays(b) == b \notin Range(Flatten(sections)) /\ ~Unassigned(b)
    IN  IF ~p.exists \/ chatBlocks = <<>> \/ cid = NoCharacter THEN p
        ELSE IF folderList = <<>>
        THEN [p EXCEPT !.sections = <<>>, !.listeners = TRUE]
        ELSE [p EXCEPT
                 !.sections =
                     IF inDocument
                     THEN Reverse(sections)
                          \o (IF uncategorizedBlocks = <<>> THEN <<>>
                              ELSE <<[id |-> Uncategorized, collapsed |-> FALSE,
                                      badge |-> Len(uncategorizedBlocks),
                                      items |-> uncategorizedBlocks]>>)
                     ELSE <<>>,
                 !.blocks = SelectSeq(@, Stays),
                 !.listeners = TRUE]

\* injectManageButton()
injectManageButton(p) ==
    IF ~p.exists \/ p.manageBtn THEN p ELSE [p EXCEPT !.manageBtn = p.layout.header]

---------------------------------------------------------------------------
(* SpecV110: v1.1.0 over #select_chat_popup *)

PopupV110 == PopupIds[2]

\* after init(): settings made, observer set, the 500 ms initial check pending
InitV110 ==
    /\ folders = <<>>
    /\ characterFolders = <<>>
    /\ characterId = NoCharacter
    /\ nextId = 0
    /\ popups = [id \in {PopupIds[1], PopupIds[2]} |-> NoPopupV110]
    /\ menu = NoMenu
    /\ syncDebounceTimer = 0
    /\ burst = 0
    /\ unsaved = FALSE
    /\ timeouts = {"init"}
    /\ version = "1.1.0"
    /\ createdIn = <<>>
    /\ last = [op |-> "init", threw |-> FALSE]

\* the settings and the popup a v1.1.0 handler leaves
StoreV110(r, p) ==
    /\ \A fid \in DOMAIN r.folders : Len(r.folders[fid].chats) <= MaxChats
    /\ folders' = r.folders
    /\ characterFolders' = r.characterFolders
    /\ unsaved' = ((unsaved \/ r.folders # folders
                            \/ r.characterFolders # characterFolders) /\ ~r.save)
    /\ popups' = [popups EXCEPT ![PopupV110] = p]
    /\ UNCHANGED <<syncDebounceTimer, burst>>

\* the pass a handler ends with, over the settings it wrote
Injected(r) == injectFoldersIntoChatHistory(popups[PopupV110], r, characterId)

\* eventSource.on(CHAT_CHANGED, () => setTimeout(injectFoldersIntoChatHistory, 200))
CharacterChangedV110(c) ==
    /\ c # characterId
    /\ "CHAT_CHANGED" \notin timeouts
    /\ characterId' = c
    /\ timeouts' = timeouts \cup {"CHAT_CHANGED"}
    /\ UNCHANGED version
    /\ last' = Ran("CHAT_CHANGED", "", "", FALSE)
    /\ UNCHANGED <<folders, characterFolders, nextId, popups, menu, syncDebounceTimer,
                   burst, unsaved, createdIn>>

\* the host adds #select_chat_popup to the document: the observer callback
\* finds it among addedNodes and sets the 100 ms timeout
HostInsertPopupV110(layout) ==
    /\ ~popups[PopupV110].exists
    /\ popups' = [popups EXCEPT ![PopupV110] =
                     [NoPopupV110 EXCEPT !.exists = TRUE, !.layout = layout]]
    /\ timeouts' = timeouts \cup {"observer"}
    /\ UNCHANGED version
    /\ last' = Ran("hostInsert", "", "", FALSE)
    /\ UNCHANGED <<folders, characterFolders, characterId, nextId, menu,
                   syncDebounceTimer, burst, unsaved, createdIn>>

\* the host empties the chat container, fills it and shows the popup; the
\* observer callback looks only for the popup among addedNodes
HostShowPopupV110(list) ==
    /\ popups[PopupV110].exists /\ ~popups[PopupV110].displayed
    /\ popups' = [popups EXCEPT ![PopupV110].displayed = TRUE,
                                ![PopupV110].blocks = list,
                                ![PopupV110].sections = <<>>,
                                ![PopupV110].listeners = FALSE]
    /\ UNCHANGED version
    /\ last' = Ran("hostShow", "", "", FALSE)
    /\ UNCHANGED <<folders, characterFolders, characterId, nextId, menu,
                   syncDebounceTimer, burst, unsaved, timeouts, createdIn>>

HostHidePopupV110 ==
    /\ popups[PopupV110].exists /\ popups[PopupV110].displayed
    /\ popups' = [popups EXCEPT ![PopupV110].displayed = FALSE]
    /\ UNCHANGED version
    /\ last' = Ran("hostHide", "", "", FALSE)
    /\ UNCHANGED <<folders, characterFolders, characterId, nextId, menu,
                   syncDebounceTimer, burst, unsaved, timeouts, createdIn>>

\* a pending timeout fires: the initial check and the observer's timeout
\* inject the manage button first
TimeoutV110(kind) ==
    /\ kind \in timeouts
    /\ timeouts' = timeouts \ {kind}
    /\ popups' = [popups EXCEPT ![PopupV110] =
                     injectFoldersIntoChatHistory(
                         IF kind = "CHAT_CHANGED" THEN popups[PopupV110]
                         ELSE injectManageButton(popups[PopupV110]),
                         Settings, characterId)]
    /\ UNCHANGED version
    /\ last' = Ran("inject", "", "", FALSE)
    /\ UNCHANGED <<folders, characterFolders, characterId, nextId, menu,
                   syncDebounceTimer, burst, unsaved, createdIn>>

\* name && name.trim()
NonBlank(n) == Truthy(n) /\ Trim(n.text) # <<>>

\* the folder headers on screen
FolderHeadersV110 ==
    {i \in 1..Len(popups[PopupV110].sections) :
        IsFolderSection(popups[PopupV110].sections[i])}

HeaderFidV110(i) == popups[PopupV110].sections[i].id

OnScreenV110 == popups[PopupV110].exists /\ popups[PopupV110].displayed

\* #chat_folders_manage_btn click: prompt; createFolder(name.trim()); inject.
\* The click bubbles to document, where the menu's close listener may be.
ClickManageBtnV110(n) ==
    LET r == IF NonBlank(n)
             THEN createFolderV110(Settings, characterId, generateId(nextId),
                                   Trim(n.text))
             ELSE NoOp(Settings)
        made == Has(r.folders, generateId(nextId))
    IN  /\ OnScreenV110 /\ popups[PopupV110].manageBtn
        /\ made => nextId < MaxFolders
        /\ StoreV110(r, IF NonBlank(n) THEN Injected(r) ELSE popups[PopupV110])
        /\ nextId' = IF made THEN nextId + 1 ELSE nextId
        /\ createdIn' = IF made THEN Put(createdIn, generateId(nextId), characterId)
                        ELSE createdIn
        /\ menu' \in {menu, NoMenu}
        /\ UNCHANGED version
        /\ last' = Ran("createFolder", "", "", FALSE)
        /\ UNCHANGED <<characterId, timeouts>>

\* .chat_folder_header click outside its action icons: toggleFolderCollapse(folder.id)
ClickHeaderV110(i) ==
    LET r == toggleFolderCollapseV110(Settings, HeaderFidV110(i))
    IN  /\ OnScreenV110 /\ i \in FolderHeadersV110
        /\ StoreV110(r, IF r.save THEN Injected(r) ELSE popups[PopupV110])
        /\ menu' \in {menu, NoMenu}
        /\ UNCHANGED version
        /\ last' = Ran("toggle", "", "", FALSE)
        /\ UNCHANGED <<characterId, nextId, timeouts, createdIn>>

\* .chat_folder_edit click: prompt; renameFolder(folder.id, newName.trim()); inject
ClickEditV110(i, n) ==
    LET r == IF NonBlank(n)
             THEN renameFolderV110(Settings, HeaderFidV110(i), Trim(n.text))
             ELSE NoOp(Settings)
    IN  /\ OnScreenV110 /\ i \in FolderHeadersV110
        /\ StoreV110(r, IF NonBlank(n) THEN Injected(r) ELSE popups[PopupV110])
        /\ UNCHANGED version
        /\ last' = Ran("renameFolder", "", "", FALSE)
        /\ UNCHANGED <<characterId, nextId, menu, timeouts, createdIn>>

\* .chat_folder_delete click: confirm; deleteFolder(folder.id); inject
ClickDelV110(i, confirmed) ==
    LET r == IF confirmed THEN deleteFolderV110(Settings, characterId, HeaderFidV110(i))
             ELSE NoOp(Settings)
    IN  /\ OnScreenV110 /\ i \in FolderHeadersV110
        /\ StoreV110(r, IF confirmed THEN Injected(r) ELSE popups[PopupV110])
        /\ UNCHANGED version
        /\ last' = Ran(IF confirmed THEN "deleteFolder" ELSE "deleteCancelled", "", "",
                       FALSE)
        /\ UNCHANGED <<characterId, nextId, menu, timeouts, createdIn>>

\* the blocks on screen: loose, or in a section whose content is not collapsed
VisibleBlocksV110(p) ==
    LET Open(section) == ~section.collapsed
    IN  chatBlocksV110([p EXCEPT !.sections = SelectSeq(@, Open)])

\* contextmenu on a chat block that a pass gave the listener: handleChatContextMenu
ContextMenuV110(j) ==
    /\ OnScreenV110 /\ popups[PopupV110].listeners
    /\ j \in 1..Len(VisibleBlocksV110(popups[PopupV110]))
    /\ VisibleBlocksV110(popups[PopupV110])[j].file_name # ""
    /\ menu' = [open |-> TRUE,
                fileName |-> VisibleBlocksV110(popups[PopupV110])[j].file_name,
                items |-> getFoldersForCurrentCharacter(Settings, characterId)
                              \o <<Uncategorized>>]
    /\ UNCHANGED version
    /\ last' = Ran("showContextMenu", "", "", FALSE)
    /\ UNCHANGED <<folders, characterFolders, characterId, nextId, popups,
                   syncDebounceTimer, burst, unsaved, timeouts, createdIn>>

\* a .chat_folders_context_item click: moveChatToFolder(chatFile, targetFolder),
\* which injects unless it returned early; menu.remove()
ClickMenuItemV110(k) ==
    LET r == moveChatToFolder(Settings, characterId, menu.fileName, menu.items[k])
    IN  /\ menu.open /\ k \in 1..Len(menu.items)
        /\ StoreV110(r, IF r.save THEN Injected(r) ELSE popups[PopupV110])
        /\ menu' = NoMenu
        /\ UNCHANGED version
        /\ last' = Ran("moveChat", "", "", FALSE)
        /\ UNCHANGED <<characterId, nextId, timeouts, createdIn>>

\* the .chat_folders_context_new click: prompt; createFolder(name.trim()), and
\* with the id it returns moveChatToFolder(chatFile, newFolderId); menu.remove()
ClickMenuNewV110(n) ==
    LET created == IF NonBlank(n)
                   THEN createFolderV110(Settings, characterId, generateId(nextId),
                                         Trim(n.text))
                   ELSE NoOp(Settings)
        made == Has(created.folders, generateId(nextId))
        r == IF made
             THEN moveChatToFolder(created, characterId, menu.fileName,
                                   generateId(nextId))
             ELSE created
    IN  /\ menu.open
        /\ made => nextId < MaxFolders
        /\ StoreV110(r, IF made THEN Injected(r) ELSE popups[PopupV110])
        /\ nextId' = IF made THEN nextId + 1 ELSE nextId
        /\ createdIn' = IF made THEN Put(createdIn, generateId(nextId), characterId)
                        ELSE createdIn
        /\ menu' = NoMenu
        /\ UNCHANGED version
        /\ last' = Ran("createFolder", "", "", FALSE)
        /\ UNCHANGED <<characterId, timeouts>>

\* a click outside the menu reaches closeMenu: menu.remove()
DocumentClickV110 ==
    /\ menu.open
    /\ menu' = NoMenu
    /\ UNCHANGED version
    /\ last' = Ran("closeMenu", "", "", FALSE)
    /\ UNCHANGED <<folders, characterFolders, characterId, nextId, popups,
                   syncDebounceTimer, burst, unsaved, timeouts, createdIn>>

V110Lists == { <<Block("c1", "", "one")>> }
V110Prompts == {PromptCancel, [ok |-> TRUE, text |-> <<" ">>],
                [ok |-> TRUE, text |-> <<" ", "a">>]}
TimeoutKinds == {"init", "observer", "CHAT_CHANGED"}

NextV110 ==
    \/ \E c \in Scopes : CharacterChangedV110(c)
    \/ HostInsertPopupV110(FullLayout)
    \/ \E list \in V110Lists : HostShowPopupV110(list)
    \/ HostHidePopupV110
    \/ \E kind \in TimeoutKinds : TimeoutV110(kind)
    \/ \E n \in V110Prompts : ClickManageBtnV110(n)
    \/ \E i \in Sections : ClickHeaderV110(i)
    \/ \E i \in Sections, n \in V110Prompts : ClickEditV110(i, n)
    \/ \E i \in Sections, confirmed \in BOOLEAN : ClickDelV110(i, confirmed)
    \/ \E j \in 1..3 : ContextMenuV110(j)
    \/ \E k \in Sections : ClickMenuItemV110(k)
    \/ \E n \in V110Prompts : ClickMenuNewV110(n)
    \/ DocumentClickV110

SpecV110 == InitV110 /\ [][NextV110]_vars

\* C7 (createFolder postcondition): a creation under scope S with a non-blank
\* name adds exactly one record, with the trimmed name, no chats, collapsed
\* false and order = the number of folders listed in S before the call, and
\* appends its id to characterFolders[S]; no other folder and no other scope's
\* list changes; the first folder created in a scope has order 0.
C7_CreateFolder ==
    [][\A n \in V110Prompts :
          (ClickManageBtnV110(n) /\ characterId # NoCharacter /\ NonBlank(n))
          => /\ DOMAIN folders' = DOMAIN folders \cup {generateId(nextId)}
             /\ generateId(nextId) \notin DOMAIN folders
             /\ folders'[generateId(nextId)] =
                    [name |-> Trim(n.text), chats |-> <<>>, collapsed |-> FALSE,
                     order |-> Len(ListOr(characterFolders, characterId))]
             /\ characterFolders'[characterId] =
                    Append(ListOr(characterFolders, characterId), generateId(nextId))
             /\ \A fid \in DOMAIN folders : folders'[fid] = folders[fid]
             /\ \A S \in DOMAIN characterFolders' \ {characterId} :
                    Has(characterFolders, S) /\ characterFolders'[S] = characterFolders[S]
             /\ (\A fid \in DOMAIN createdIn : createdIn[fid] # characterId)
                    => folders'[generateId(nextId)].order = 0]_vars

\* the chat blocks attached inside #select_chat_popup
AttachedV110(p) == Range(chatBlocksV110(p))

\* the steps that end with an injectFoldersIntoChatHistory() pass
PassV110 ==
    \/ \E kind \in TimeoutKinds : TimeoutV110(kind)
    \/ \E n \in V110Prompts : NonBlank(n) /\ ClickManageBtnV110(n)
    \/ \E i \in Sections, n \in V110Prompts : NonBlank(n) /\ ClickEditV110(i, n)
    \/ \E i \in Sections : ClickDelV110(i, TRUE)
    \/ \E k \in Sections : ClickMenuItemV110(k)

\* C15 (Reparenting keeps every item, v1.1.0): after each pass, run by a
\* timeout or at the end of a folder creation, rename, move or deletion, every
\* host chat block with a file_name is still attached inside the popup, and a
\* repeated pass yields the same structure.
C15_ReparentingKeeps ==
    [][(PassV110 /\ popups[PopupV110].exists /\ characterId # NoCharacter)
       => /\ \A block \in AttachedV110(popups[PopupV110]) :
                 block.file_name # "" => block \in AttachedV110(popups'[PopupV110])
          /\ injectFoldersIntoChatHistory(popups'[PopupV110], Settings', characterId)
                 = popups'[PopupV110]]_vars

---------------------------------------------------------------------------
(* UI ENGINE, v1.6.0 (src/index.js 1063-1516).  Its folder logic is that   *)
(* of v2.0.2 without the scheduleSync() calls.  buildUI moves the host's   *)
(* own chat blocks into the sections of a .tmc_root that it prepends to    *)
(* the first .select_chat_block_wrapper of #shadow_select_chat_popup.      *)

PopupV160 == PopupIds[1]

NoRootV160 == [present |-> FALSE, groups |-> <<>>]

\* blocks: the chat blocks that lie loose in the wrapper
NoPopupV160 ==
    [exists |-> FALSE, displayed |-> FALSE, layout |-> BareLayout, wrapper |-> FALSE,
     blocks |-> <<>>, root |-> NoRootV160, addBtn |-> FALSE]

\* getFoldersForCharacter(): the listed ids whose record has a name
getFoldersForCharacter(s, cid) ==
    IF cid = NoCharacter THEN <<>>
    ELSE LET Named(id) == Has(s.folders, id) /\ s.folders[id].name # <<>>
         IN  SelectSeq(ListOr(s.characterFolders, cid), Named)

\* block.getAttribute('file_name') || block.textContent.trim()
FileNameV160(block) == IF block.file_name # "" THEN block.file_name ELSE block.text

\* createFolderSection(folder) and createUncategorizedSection()
createFolderSection(fid, folder) ==
    [id |-> fid, collapsed |-> folder.collapsed, items |-> <<>>, count |-> 0,
     hidden |-> FALSE]

createUncategorizedSection ==
    [id |-> Uncategorized, collapsed |-> FALSE, items |-> <<>>, count |-> 0,
     hidden |-> FALSE]

\* chatBlocks.forEach(block => targetContent.appendChild(block)), then the
\* counts and the visibility of the uncategorized section
MoveBlocks(sections, chatBlocks, s, cid) ==
    LET Fill(section) ==
            LET Mine(block) ==
                    /\ FileNameV160(block) # ""
                    /\ getFolderForChat(s, cid, FileNameV160(block)) = section.id
                mine == SelectSeq(chatBlocks, Mine)
            IN  [section EXCEPT !.items = mine, !.count = Len(mine),
                                !.hidden = (section.id = Uncategorized /\ Len(mine) = 0)]
    IN  [i \in 1..Len(sections) |-> Fill(sections[i])]

\* buildUI(): the popup after the pass.  Removing the .tmc_root of the pass
\* before takes the blocks inside it out of the document.
buildUI(p, s, cid) ==
    LET chatBlocks == p.blocks
        ids == getFoldersForCharacter(s, cid)
        sections == [i \in 1..Len(ids) |-> createFolderSection(ids[i], s.folders[ids[i]])]
                        \o <<createUncategorizedSection>>
        groups == MoveBlocks(sections, chatBlocks, s, cid)
        Moved(block) == block \in Range(Flatten(groups))
        Loose(block) == ~Moved(block)
    IN  IF ~p.exists \/ ~p.displayed \/ ~p.wrapper \/ cid = NoCharacter THEN p
        ELSE IF chatBlocks = <<>> THEN [p EXCEPT !.root = NoRootV160]
        ELSE injectAddButton(
                 [p EXCEPT !.root = [present |-> TRUE, groups |-> groups],
                           !.blocks = SelectSeq(chatBlocks, Loose)])

---------------------------------------------------------------------------
(* SpecV160: v1.6.0 over #shadow_select_chat_popup *)

\* after init(): the observer and the interval set, the 1000 ms build pending
InitV160 ==
    /\ folders = <<>>
    /\ characterFolders = <<>>
    /\ characterId = NoCharacter
    /\ nextId = 0
    /\ popups = [id \in {PopupIds[1], PopupIds[2]} |-> NoPopupV160]
    /\ menu = NoMenu
    /\ syncDebounceTimer = 0
    /\ burst = 0
    /\ unsaved = FALSE
    /\ timeouts = {"init"}
    /\ version = "1.6.0"
    /\ createdIn = <<>>
    /\ last = [op |-> "init", threw |-> FALSE]

\* the observer callback: popup displayed and no .tmc_root in it ->
\* setTimeout(buildUI, 100)
ObserverV160(p, pending) ==
    IF p.exists /\ p.displayed /\ ~p.root.present THEN pending \cup {"observer"}
    ELSE pending

\* what a v1.6.0 handler leaves: the settings r, the popup p, the menu m and
\* the pending timeouts, to which the observer adds when the DOM was changed
StepV160(r, p, m, pending, op) ==
    /\ \A fid \in DOMAIN r.folders : Len(r.folders[fid].chats) <= MaxChats
    /\ folders' = r.folders
    /\ characterFolders' = r.characterFolders
    /\ unsaved' = ((unsaved \/ r.folders # folders
                            \/ r.characterFolders # characterFolders) /\ ~r.save)
    /\ popups' = [popups EXCEPT ![PopupV160] = p]
    /\ menu' = m
    /\ timeouts' = IF p # popups[PopupV160] \/ m # menu THEN ObserverV160(p, pending)
                   ELSE pending
    /\ UNCHANGED version
    /\ last' = Ran(op, "", "", FALSE)
    /\ UNCHANGED <<syncDebounceTimer, burst>>

\* the pass a handler ends with, over the settings it wrote
Built(r) == buildUI(popups[PopupV160], r, characterId)

OnScreenV160 == popups[PopupV160].exists /\ popups[PopupV160].displayed

\* eventSource.on(CHAT_CHANGED, () => setTimeout(buildUI, 200))
CharacterChangedV160(c) ==
    /\ c # characterId
    /\ "CHAT_CHANGED" \notin timeouts
    /\ characterId' = c
    /\ StepV160(NoOp(Settings), popups[PopupV160], menu,
                timeouts \cup {"CHAT_CHANGED"}, "CHAT_CHANGED")
    /\ UNCHANGED <<nextId, createdIn>>

\* the host adds the popup to the document, hidden
HostInsertPopupV160(layout, wrapper) ==
    /\ ~popups[PopupV160].exists
    /\ StepV160(NoOp(Settings),
                [NoPopupV160 EXCEPT !.exists = TRUE, !.layout = layout,
                                    !.wrapper = wrapper],
                menu, timeouts, "hostInsert")
    /\ UNCHANGED <<characterId, nextId, createdIn>>

\* the host renders its chat list into the wrapper and shows the popup
HostShowPopupV160(list) ==
    /\ popups[PopupV160].exists /\ ~popups[PopupV160].displayed
    /\ StepV160(NoOp(Settings),
                [popups[PopupV160] EXCEPT !.displayed = TRUE, !.root = NoRootV160,
                     !.blocks = IF popups[PopupV160].wrapper THEN list ELSE <<>>],
                menu, timeouts, "hostShow")
    /\ UNCHANGED <<characterId, nextId, createdIn>>

HostHidePopupV160 ==
    /\ OnScreenV160
    /\ StepV160(NoOp(Settings), [popups[PopupV160] EXCEPT !.displayed = FALSE],
                menu, timeouts, "hostHide")
    /\ UNCHANGED <<characterId, nextId, createdIn>>

\* a pending setTimeout(buildUI, ...) fires
TimeoutV160(kind) ==
    /\ kind \in timeouts
    /\ StepV160(NoOp(Settings), Built(Settings), menu, timeouts \ {kind}, "buildUI")
    /\ UNCHANGED <<characterId, nextId, createdIn>>

\* the 2000 ms interval callback: buildUI() when the popup is displayed and
\* has no .tmc_root; any other tick does nothing
HeartbeatV160 ==
    /\ OnScreenV160 /\ ~popups[PopupV160].root.present
    /\ StepV160(NoOp(Settings), Built(Settings), menu, timeouts, "buildUI")
    /\ UNCHANGED <<characterId, nextId, createdIn>>

\* .tmc_add_btn onclick: const n = prompt(...); if (n) { createFolder(n); buildUI() }
ClickAddBtnV160(n) ==
    LET r == IF Truthy(n)
             THEN createFolder(Settings, characterId, generateId(nextId), n.text)
             ELSE NoOp(Settings)
        made == Has(r.folders, generateId(nextId))
    IN  /\ OnScreenV160 /\ popups[PopupV160].addBtn
        /\ made => nextId < MaxFolders
        /\ StepV160(r, IF Truthy(n) THEN Built(r) ELSE popups[PopupV160], menu,
                    timeouts, IF Truthy(n) THEN "createFolder" ELSE "cancelled")
        /\ nextId' = IF made THEN nextId + 1 ELSE nextId
        /\ createdIn' = IF made THEN Put(createdIn, generateId(nextId), characterId)
                        ELSE createdIn
        /\ UNCHANGED characterId

\* the folder headers on screen
FolderHeadersV160 ==
    {i \in 1..Len(popups[PopupV160].root.groups) :
        popups[PopupV160].root.groups[i].id # Uncategorized}

HeaderFidV160(i) == popups[PopupV160].root.groups[i].id

\* .tmc_header_left onclick: flip collapsed, saveSettings(), buildUI()
ClickHeaderLeftV160(i) ==
    LET r == toggleCollapsed(Settings, HeaderFidV160(i))
    IN  /\ OnScreenV160 /\ i \in FolderHeadersV160
        /\ \E m \in {menu, NoMenu} :
               StepV160(r, IF r.save THEN Built(r) ELSE popups[PopupV160], m, timeouts,
                        IF r.save THEN "toggle" ELSE "cancelled")
        /\ UNCHANGED <<characterId, nextId, createdIn>>

\* .tmc_edit onclick: if (n) { renameFolder(folder.id, n); buildUI() }
ClickEditV160(i, n) ==
    LET r == IF Truthy(n) THEN renameFolder(Settings, HeaderFidV160(i), n.text)
             ELSE NoOp(Settings)
    IN  /\ OnScreenV160 /\ i \in FolderHeadersV160
        /\ StepV160(r, IF Truthy(n) THEN Built(r) ELSE popups[PopupV160], menu,
                    timeouts, IF Truthy(n) THEN "renameFolder" ELSE "cancelled")
        /\ UNCHANGED <<characterId, nextId, createdIn>>

\* .tmc_del onclick: if (confirm(...)) { deleteFolder(folder.id); buildUI() }
ClickDelV160(i, confirmed) ==
    LET r == IF confirmed THEN deleteFolder(Settings, characterId, HeaderFidV160(i))
             ELSE NoOp(Settings)
    IN  /\ OnScreenV160 /\ i \in FolderHeadersV160
        /\ StepV160(r, IF confirmed THEN Built(r) ELSE popups[PopupV160], menu,
                    timeouts, IF confirmed THEN "deleteFolder" ELSE "cancelled")
        /\ UNCHANGED <<characterId, nextId, createdIn>>

\* contextmenu on a chat block that a pass moved into a section on screen:
\* showContextMenu(e, fileName)
ContextMenuV160(i, j) ==
    /\ OnScreenV160 /\ i \in 1..Len(popups[PopupV160].root.groups)
    /\ ~popups[PopupV160].root.groups[i].hidden
    /\ ~popups[PopupV160].root.groups[i].collapsed
    /\ j \in 1..Len(popups[PopupV160].root.groups[i].items)
    /\ StepV160(NoOp(Settings), popups[PopupV160],
                [open |-> TRUE,
                 fileName |-> FileNameV160(popups[PopupV160].root.groups[i].items[j]),
                 items |-> getFoldersForCharacter(Settings, characterId)
                               \o <<Uncategorized>>],
                timeouts, "showContextMenu")
    /\ UNCHANGED <<characterId, nextId, createdIn>>

\* menu.onclick on a data-fid item: moveChat(fileName, fid); buildUI(); menu.remove()
ClickMenuItemV160(k) ==
    LET r == moveChat(Settings, characterId, menu.fileName, menu.items[k])
    IN  /\ menu.open /\ k \in 1..Len(menu.items)
        /\ StepV160(r, Built(r), NoMenu, timeouts, "moveChat")
        /\ UNCHANGED <<characterId, nextId, createdIn>>

\* menu.onclick on .tmc_new: if (name) { fid = createFolder(name);
\* if (fid) moveChat(fileName, fid); buildUI() }; menu.remove()
ClickMenuNewV160(n) ==
    LET created == IF Truthy(n)
                   THEN createFolder(Settings, characterId, generateId(nextId), n.text)
                   ELSE NoOp(Settings)
        made == Has(created.folders, generateId(nextId))
        moved == moveChat(created, characterId, menu.fileName, generateId(nextId))
        r == IF made THEN moved ELSE created
    IN  /\ menu.open
        /\ made => nextId < MaxFolders
        /\ StepV160(r, IF Truthy(n) THEN Built(r) ELSE popups[PopupV160], NoMenu,
                    timeouts, IF Truthy(n) THEN "createFolder" ELSE "cancelled")
        /\ nextId' = IF made THEN nextId + 1 ELSE nextId
        /\ createdIn' = IF made THEN Put(createdIn, generateId(nextId), characterId)
                        ELSE createdIn
        /\ UNCHANGED characterId

\* a click elsewhere reaches the document listener: menu.remove()
DocumentClickV160 ==
    /\ menu.open
    /\ StepV160(NoOp(Settings), popups[PopupV160], NoMenu, timeouts, "closeMenu")
    /\ UNCHANGED <<characterId, nextId, createdIn>>

\* the chat lists the host renders: a block with a file_name; the same with a
\* block that has neither a file_name nor text
V160Lists ==
    { <<Block("c1", "", "one")>>,
      <<Block("c1", "", "one"), Block("", "", "")>> }

V160Prompts == {PromptCancel, [ok |-> TRUE, text |-> <<" ", "a">>]}
V160Characters == {"alice", NoCharacter}

NextV160 ==
    \/ \E c \in V160Characters : CharacterChangedV160(c)
    \/ \E wrapper \in BOOLEAN : HostInsertPopupV160(FullLayout, wrapper)
    \/ \E list \in V160Lists : HostShowPopupV160(list)
    \/ HostHidePopupV160
    \/ \E kind \in TimeoutKinds : TimeoutV160(kind)
    \/ HeartbeatV160
    \/ \E n \in V160Prompts : ClickAddBtnV160(n)
    \/ \E i \in Sections : ClickHeaderLeftV160(i)
    \/ \E i \in Sections, n \in V160Prompts : ClickEditV160(i, n)
    \/ \E i \in Sections, confirmed \in BOOLEAN : ClickDelV160(i, confirmed)
    \/ \E i \in Sections, j \in 1..2 : ContextMenuV160(i, j)
    \/ \E k \in Sections : ClickMenuItemV160(k)
    \/ \E n \in V160Prompts : ClickMenuNewV160(n)
    \/ DocumentClickV160

SpecV160 == InitV160 /\ [][NextV160]_vars

\* the chat blocks attached inside the wrapper
AttachedV160(p) == Range(Flatten(p.root.groups)) \cup Range(p.blocks)

\* the handlers that end with a buildUI() pass
PassOpsV160 ==
    {"buildUI", "toggle", "createFolder", "renameFolder", "deleteFolder", "moveChat"}

\* C14 (Reparenting keeps every item, v1.6.0 buildUI): a pass over a visible
\* popup with a selected character keeps every chat block of the wrapper
\* attached in it, each keyed block in the group getFolderForChat gives it,
\* and a further pass yields the same structure.
C14_ReparentingKeeps ==
    [][(/\ last'.op \in PassOpsV160
        /\ OnScreenV160 /\ popups[PopupV160].wrapper
        /\ characterId # NoCharacter)
       => /\ AttachedV160(popups'[PopupV160]) = AttachedV160(popups[PopupV160])
          /\ \A block \in AttachedV160(popups[PopupV160]) :
                 FileNameV160(block) # "" =>
                     \E i \in 1..Len(popups'[PopupV160].root.groups) :
                         /\ popups'[PopupV160].root.groups[i].id =
                                getFolderForChat(Settings', characterId,
                                                 FileNameV160(block))
                         /\ block \in Range(popups'[PopupV160].root.groups[i].items)
          /\ buildUI(popups'[PopupV160], Settings', characterId)
                 = popups'[PopupV160]]_vars

---------------------------------------------------------------------------
(* SYNC ENGINE, v2.1.0 (src/index.js 539-1061).  Its folder data, context  *)
(* menu, observer and handlers are those of v2.0.2; performSync and the    *)
(* heartbeat differ.                                                       *)

\* the notice a pass leaves in #tmc_proxy_root when no character is selected
SelectNotice == <<"Select a character">>

\* performSync() of v2.1.0: without a character the root gets the notice and
\* the pass returns before it builds a tree or injects the add button
performSyncV210(dom, s, cid) ==
    IF ActivePopup(dom) = "none" THEN dom
    ELSE IF cid = NoCharacter
    THEN [dom EXCEPT ![ActivePopup(dom)].root =
             [present |-> TRUE,
              position |-> IF dom[ActivePopup(dom)].root.present
                           THEN dom[ActivePopup(dom)].root.position
                           ELSE RootPosition(dom[ActivePopup(dom)].layout),
              text |-> SelectNotice, groups |-> <<>>]]
    ELSE [dom EXCEPT ![ActivePopup(dom)] = SyncPopup(dom[ActivePopup(dom)], s, cid)]

\* a pending performSync timeout of v2.1.0 fires
TimerFiresV210 ==
    \E handle \in timeouts :
        /\ popups' = performSyncV210(popups, Settings, characterId)
        /\ syncDebounceTimer' =
               IF SyncObserved(popups)
               THEN scheduleSync(timeouts \ {handle}, syncDebounceTimer).syncDebounceTimer
               ELSE syncDebounceTimer
        /\ timeouts' =
               IF SyncObserved(popups)
               THEN scheduleSync(timeouts \ {handle}, syncDebounceTimer).timeouts
               ELSE timeouts \ {handle}
        /\ burst' = 0
        /\ UNCHANGED version
        /\ last' = Ran("performSync", "", "", FALSE)
        /\ UNCHANGED <<folders, characterFolders, characterId, nextId, menu, unsaved,
                       createdIn>>

\* the heartbeat's test in v2.1.0: the popup is displayed and has no
\* #tmc_proxy_root, or a root without children
DesyncedV210(dom) ==
    /\ HeartbeatPopup(dom) # "none"
    /\ dom[HeartbeatPopup(dom)].displayed
    /\ \/ ~dom[HeartbeatPopup(dom)].root.present
       \/ /\ dom[HeartbeatPopup(dom)].root.groups = <<>>
          /\ dom[HeartbeatPopup(dom)].root.text = <<>>

\* the 500 ms interval callback
HeartbeatV210 ==
    /\ Bounded
    /\ Schedule(DesyncedV210(popups))
    /\ UNCHANGED version
    /\ last' = Ran("heartbeat", "", "", FALSE)
    /\ UNCHANGED <<folders, characterFolders, characterId, nextId, popups, menu, unsaved,
                   createdIn>>

NextV210 ==
    \/ \E c \in SyncCharacters : CharacterChanged(c)
    \/ \E id \in HostPopups : HostInsertPopup(id, FullLayout)
    \/ \E id \in HostPopups, list \in SyncLists : HostShowPopup(id, list)
    \/ \E id \in HostPopups : HostHidePopup(id)
    \/ TimerFiresV210
    \/ HeartbeatV210
    \/ \E id \in HostPopups, n \in SyncPrompts : ClickAddBtn(id, n)
    \/ \E id \in HostPopups, i \in Sections : ClickHeaderLeft(id, i)
    \/ \E id \in HostPopups, i \in Sections, j \in 1..3 : ContextMenu(id, i, j)
    \/ \E k \in Sections : ClickMenuItem(k)
    \/ \E n \in SyncPrompts : ClickMenuNew(n)

SpecV210 == Init /\ [][NextV210]_vars

---------------------------------------------------------------------------
(* Properties of the debounce, checked under SpecSync *)

\* the handlers that call scheduleSync() whatever they find
Trigger ==
    \/ \E c \in SyncCharacters : CharacterChanged(c)
    \/ \E id \in HostPopups, list \in SyncLists : HostShowPopup(id, list)
    \/ \E id \in HostPopups : HostHidePopup(id)
    \/ \E id \in HostPopups, list \in SyncLists : HostRenderChats(id, list, TRUE)
    \/ \E nativeCount \in 1..3 : Heartbeat(nativeCount) /\ Desynced(popups, nativeCount)

\* C11 (Single-slot debounce): at most one performSync timeout is pending at
\* any moment; each scheduleSync call cancels the pending one and arms a new
\* one; the timeout that fires is the one the last call armed, no other is
\* pending with it, and after the pass no timeout of the burst is left.
C11_SingleSlot ==
    [][/\ Cardinality(timeouts') <= 1
       /\ Trigger => timeouts' = {syncDebounceTimer'}
       /\ TimerFires => /\ timeouts = {syncDebounceTimer}
                         /\ (SyncObserved(popups) \/ timeouts' = {})]_vars

\* a scheduleSync call has just replaced a timeout that was pending
C11_Witness ==
    /\ last.op \in {"CHAT_CHANGED", "hostShow", "hostHide", "heartbeat"}
    /\ burst >= 1
    /\ timeouts = {syncDebounceTimer}

\* C13 (Write-through persistence): whenever control is back in the event
\* loop, no change of folders or characterFolders (create, rename, delete,
\* move, collapse toggle) is without a saveSettingsDebounced call after it.
C13_WriteThrough == ~unsaved

\* a collapse toggle has just changed a folder that holds a chat, after a
\* creation and a move
C13_Witness ==
    /\ last.op = "toggle"
    /\ ~unsaved
    /\ \E fid \in DOMAIN folders : folders[fid].collapsed /\ folders[fid].chats # <<>>

\* what a pass renders into a popup
Rendered(p) == <<p.root, p.addBtn>>

\* C12 (No overlapping passes): a pass runs only in the step of a timeout
\* firing, one pass per step; timer fires, observer callbacks, heartbeat ticks,
\* scope changes and gestures render nothing themselves, and a trigger that
\* arrives during a pass leaves a timeout pending for a later pass.
C12_NoOverlap ==
    [][/\ TimerFires =>
              /\ popups' = performSync(popups, Settings, characterId)
              /\ SyncObserved(popups) => syncDebounceTimer' \in timeouts'
       /\ ~TimerFires =>
              \A id \in DOMAIN popups : Rendered(popups'[id]) = Rendered(popups[id])]_vars

\* a pass has just run whose own insertion of #tmc_proxy_root into the popup
\* element was answered by the observer with scheduleSync()
C12_Witness ==
    /\ last.op = "performSync"
    /\ ActivePopup(popups) # "none"
    /\ popups[ActivePopup(popups)].root.position = "popupFirst"
    /\ timeouts = {syncDebounceTimer}

---------------------------------------------------------------------------
(* v2.0.2 with one character and up to MaxCreated folders: the add button, *)
(* the delete buttons and the passes between them                          *)

OrderList == <<Block("c1", "", "one")>>
OrderNames == {[ok |-> TRUE, text |-> <<"a">>]}

\* .tmc_add_btn onclick
ClickAddBtnOrder(id, n) ==
    /\ Bounded
    /\ Shown(id) /\ popups[id].addBtn
    /\ PromptCreateUpTo(n, MaxCreated)
    /\ UNCHANGED <<characterId, popups, menu>>

NextOrder ==
    \/ characterId = NoCharacter /\ CharacterChanged("alice")
    \/ \E id \in HostPopups : HostInsertPopup(id, FullLayout)
    \/ \E id \in HostPopups : HostShowPopup(id, OrderList)
    \/ TimerFires
    \/ \E id \in HostPopups, n \in OrderNames : ClickAddBtnOrder(id, n)
    \/ \E id \in HostPopups, i \in 1..MaxCreated : ClickDel(id, i, TRUE)

SpecOrder == Init /\ [][NextOrder]_vars

---------------------------------------------------------------------------
(* v1.1.0 with one character and a host list of two chats: the manage      *)
(* button, the context menu's moves and the passes between them            *)

HostListV110 == <<Block("c2", "", "two"), Block("c1", "", "one")>>
HostNamesV110 == {[ok |-> TRUE, text |-> <<"a">>]}

NextHostV110 ==
    \/ characterId = NoCharacter /\ CharacterChangedV110("alice")
    \/ HostInsertPopupV110(FullLayout)
    \/ HostShowPopupV110(HostListV110)
    \/ HostHidePopupV110
    \/ \E kind \in TimeoutKinds : TimeoutV110(kind)
    \/ \E n \in HostNamesV110 : ClickManageBtnV110(n)
    \/ \E j \in 1..Len(HostListV110) : ContextMenuV110(j)
    \/ \E k \in Sections : ClickMenuItemV110(k)

SpecHostV110 == InitV110 /\ [][NextHostV110]_vars

---------------------------------------------------------------------------
(* v2.0.2 under fair scheduling: a pending timeout fires and the interval  *)
(* ticks; the host renders one .select_chat_block_wrapper per chat, so the *)
(* heartbeat finds one host block in the first wrapper                     *)

LiveLists == {<<Block("c1", "", "one")>>,
              <<Block("c1", "", "one"), Block("c2", "", "two")>>}

NextLive ==
    \/ \E c \in SyncCharacters : CharacterChanged(c)
    \/ \E id \in HostPopups : HostInsertPopup(id, FullLayout)
    \/ \E id \in HostPopups, list \in LiveLists : HostShowPopup(id, list)
    \/ \E id \in HostPopups : HostHidePopup(id)
    \/ \E id \in HostPopups, list \in LiveLists, seen \in BOOLEAN :
           HostRenderChats(id, list, seen)
    \/ TimerFires
    \/ Heartbeat(1)

SpecLive ==
    Init /\ [][NextLive]_vars /\ WF_vars(TimerFires) /\ WF_vars(Heartbeat(1))

---------------------------------------------------------------------------
(* v2.0.2 with a host that also builds the popup lazily: it inserts the     *)
(* popup element already displayed and filled, or removes it               *)

\* the host appends a displayed popup with its chat list to its parent; the
\* mutation record's target is that parent, which the observer's callback
\* passes over
HostInsertShownPopup(id, layout, list) ==
    /\ Bounded
    /\ ~popups[id].exists
    /\ popups' = [popups EXCEPT ![id] = [NoPopup EXCEPT !.exists = TRUE,
                                                       !.displayed = TRUE,
                                                       !.layout = layout,
                                                       !.blocks = list]]
    /\ Schedule(FALSE)
    /\ UNCHANGED version
    /\ last' = Ran("hostInsert", "", "", FALSE)
    /\ UNCHANGED <<folders, characterFolders, characterId, nextId, menu, unsaved,
                   createdIn>>

\* the host removes the popup element from its parent
HostRemovePopup(id) ==
    /\ Bounded
    /\ popups[id].exists
    /\ popups' = [popups EXCEPT ![id] = NoPopup]
    /\ Schedule(FALSE)
    /\ UNCHANGED version
    /\ last' = Ran("hostRemove", "", "", FALSE)
    /\ UNCHANGED <<folders, characterFolders, characterId, nextId, menu, unsaved,
                   createdIn>>

NextObserve ==
    \/ \E c \in SyncCharacters : CharacterChanged(c)
    \/ \E id \in HostPopups : HostInsertPopup(id, FullLayout)
    \/ \E id \in HostPopups, list \in LiveLists :
           HostInsertShownPopup(id, FullLayout, list)
    \/ \E id \in HostPopups : HostRemovePopup(id)
    \/ \E id \in HostPopups, list \in LiveLists : HostShowPopup(id, list)
    \/ \E id \in HostPopups : HostHidePopup(id)
    \/ \E id \in HostPopups, list \in LiveLists, seen \in BOOLEAN :
           HostRenderChats(id, list, seen)
    \/ TimerFires
    \/ Heartbeat(1)

SpecObserve == Init /\ [][NextObserve]_vars

---------------------------------------------------------------------------
(* v2.0.2 with passes that fault: a DOM call inside performSync's try block *)
(* throws, the catch logs the error and the callback returns               *)

\* where a pass may fault: before it writes anything, after it has inserted
\* #tmc_proxy_root, after it has swapped the tree in and before the add button
FaultSteps == {"find", "build", "button"}

\* the popup a pass leaves that faulted at the given step
PartialSync(p, s, cid, step) ==
    IF step = "find" THEN p
    ELSE IF step = "build"
    THEN [p EXCEPT !.root =
             [present |-> TRUE,
              position |-> IF p.root.present THEN p.root.position
                           ELSE RootPosition(p.layout),
              text |-> p.root.text, groups |-> p.root.groups]]
    ELSE [SyncPopup(p, s, cid) EXCEPT !.addBtn = p.addBtn]

\* a pending performSync timeout fires and the pass faults at a step; the
\* observer has seen what the pass wrote before
PassFaults(step) ==
    \E handle \in timeouts :
        /\ ActivePopup(popups) # "none"
        /\ popups' = [popups EXCEPT ![ActivePopup(popups)] =
                         PartialSync(@, Settings, characterId, step)]
        /\ syncDebounceTimer' =
               IF step # "find" /\ SyncObserved(popups)
               THEN scheduleSync(timeouts \ {handle}, syncDebounceTimer).syncDebounceTimer
               ELSE syncDebounceTimer
        /\ timeouts' =
               IF step # "find" /\ SyncObserved(popups)
               THEN scheduleSync(timeouts \ {handle}, syncDebounceTimer).timeouts
               ELSE timeouts \ {handle}
        /\ burst' = 0
        /\ UNCHANGED version
        /\ last' = Ran("performSync", "", "", TRUE)
        /\ UNCHANGED <<folders, characterFolders, characterId, nextId, menu, unsaved,
                       createdIn>>

NextFault ==
    \/ \E c \in SyncCharacters : CharacterChanged(c)
    \/ \E id \in HostPopups, layout \in {FullLayout, BareLayout} :
           HostInsertPopup(id, layout)
    \/ \E id \in HostPopups, list \in LiveLists : HostShowPopup(id, list)
    \/ \E id \in HostPopups : HostHidePopup(id)
    \/ TimerFires
    \/ \E step \in FaultSteps : PassFaults(step)

SpecFault == Init /\ [][NextFault]_vars

---------------------------------------------------------------------------
(* Properties of the rendered groups *)

\* the host chat blocks of popup p that have a key (file_name, else title,
\* else first text line), by position in the host's list
KeyedBlocks(p) == {i \in 1..Len(p.blocks) : FileNameOf(p.blocks[i]) # ""}

\* the positions in group g whose proxy stands for host block i
ProxiesOf(g, i) == {j \in 1..Len(g.items) : g.items[j].element = i}

RECURSIVE SumCounts(_)
SumCounts(groups) ==
    IF groups = <<>> THEN 0 ELSE Head(groups).count + SumCounts(Tail(groups))

\* the groups of popup p partition its keyed host blocks by getFolderForChat
\* and carry exact counts
Partitioned(p, s, cid) ==
    /\ \A i \in KeyedBlocks(p) :
           /\ \E k \in 1..Len(p.root.groups) :
                  /\ p.root.groups[k].id = getFolderForChat(s, cid, FileNameOf(p.blocks[i]))
                  /\ Cardinality(ProxiesOf(p.root.groups[k], i)) = 1
           /\ \A k \in 1..Len(p.root.groups) :
                  p.root.groups[k].id # getFolderForChat(s, cid, FileNameOf(p.blocks[i]))
                      => ProxiesOf(p.root.groups[k], i) = {}
    /\ \A k \in 1..Len(p.root.groups) :
           p.root.groups[k].count = Len(p.root.groups[k].items)
    /\ SumCounts(p.root.groups) = Cardinality(KeyedBlocks(p))

\* C16 (Grouping is a partition with exact counts): after a pass over a
\* visible popup every keyed host chat block has exactly one proxy, in the
\* group getFolderForChat names for its key; every group's count is the number
\* of its proxies; the counts sum to the number of keyed host chat blocks.
C16_Partition ==
    (last.op = "performSync" /\ ActivePopup(popups) # "none")
        => Partitioned(popups[ActivePopup(popups)], Settings, characterId)

\* the position of folder fid in the sequence of generated ids
CreatedAt(fid) == CHOOSE n \in 0..MaxCreated : generateId(n) = fid

\* group g is rendered above group h rightly: uncategorized is below every
\* folder, a lower order field is above a higher one, equal order fields
\* stand in creation order
InOrder(g, h, f) ==
    /\ g.id # Uncategorized
    /\ h.id # Uncategorized =>
           \/ f[g.id].order < f[h.id].order
           \/ f[g.id].order = f[h.id].order /\ CreatedAt(g.id) < CreatedAt(h.id)

\* C17 (Group order, performSync): after a pass, in every store state reached
\* by creating and deleting folders, the folder groups of the active character
\* stand sorted by order field, equal order fields in creation order, and the
\* uncategorized group is the last group.
C17_GroupOrder ==
    (last.op = "performSync" /\ ActivePopup(popups) # "none") =>
        \A i, j \in 1..Len(popups[ActivePopup(popups)].root.groups) :
            i < j => InOrder(popups[ActivePopup(popups)].root.groups[i],
                             popups[ActivePopup(popups)].root.groups[j], folders)

\* C18 (Group order, v1.1.0): the folder sections stand in the chat container
\* from top to bottom in ascending order field, equal order fields in creation
\* order, and the uncategorized section stands below all of them.
C18_SectionOrder ==
    \A i, j \in 1..Len(popups[PopupV110].sections) :
        (/\ i < j
         /\ \A k \in {i, j} :
                popups[PopupV110].sections[k].id # Uncategorized
                    => Has(folders, popups[PopupV110].sections[k].id))
            => InOrder(popups[PopupV110].sections[i], popups[PopupV110].sections[j],
                       folders)

\* the items of group g stand in the order of the host chat blocks of popup p
\* they were made from
HostOrdered(g, p) ==
    /\ \A i \in 1..Len(g.items) :
           /\ g.items[i].element \in 1..Len(p.blocks)
           /\ FileNameOf(p.blocks[g.items[i].element]) = g.items[i].fileName
    /\ \A i, j \in 1..Len(g.items) :
           i < j => g.items[i].element < g.items[j].element

\* C19 (Host order within a group, performSync): after a pass, any two items
\* of one group stand in the relative order of their host chat blocks in the
\* popup, whatever the order in which they were moved into the folder.
C19_HostOrder ==
    (last.op = "performSync" /\ ActivePopup(popups) # "none") =>
        \A k \in 1..Len(popups[ActivePopup(popups)].root.groups) :
            HostOrdered(popups[ActivePopup(popups)].root.groups[k],
                        popups[ActivePopup(popups)])

\* a pass has rendered a folder with two items whose chats list, in the order
\* of the moves, begins with the item the host lists second
C19_Witness ==
    /\ last.op = "performSync"
    /\ ActivePopup(popups) # "none"
    /\ \E k \in 1..Len(popups[ActivePopup(popups)].root.groups) :
           LET g == popups[ActivePopup(popups)].root.groups[k]
           IN  /\ g.id # Uncategorized
               /\ Len(g.items) = 2
               /\ Len(folders[g.id].chats) = 2
               /\ folders[g.id].chats[1] = g.items[2].fileName
               /\ folders[g.id].chats[2] = g.items[1].fileName

\* the position of a chat block in the list the host renders
HostPosition(block) == CHOOSE i \in 1..Len(HostListV110) : HostListV110[i] = block

\* C20 (Host order within a group, v1.1.0): any two items of one folder
\* section stand in the relative order of their host chat blocks, not in the
\* order in which they were moved into the folder.
C20_HostOrder ==
    \A k \in 1..Len(popups[PopupV110].sections) :
        popups[PopupV110].sections[k].id # Uncategorized =>
            \A i, j \in 1..Len(popups[PopupV110].sections[k].items) :
                i < j => HostPosition(popups[PopupV110].sections[k].items[i])
                             < HostPosition(popups[PopupV110].sections[k].items[j])

\* the groups of a rendered view show what they must: an empty folder group
\* is shown; the uncategorized group is hidden exactly when it is empty and
\* a folder group stands beside it
VisibleAsSpecified(groups) ==
    \A k \in 1..Len(groups) :
        IF groups[k].id # Uncategorized
        THEN ~groups[k].hidden
        ELSE groups[k].hidden <=>
                 /\ Len(groups[k].items) = 0
                 /\ \E h \in 1..Len(groups) : groups[h].id # Uncategorized

\* C21 (Empty-group visibility): after a pass a folder group with zero items
\* is shown, and the uncategorized group is hidden exactly when it has zero
\* items and the active character has at least one folder group; with zero
\* items and no folder it stays visible.
C21_EmptyGroups ==
    (last.op = "performSync" /\ ActivePopup(popups) # "none"
        /\ popups[ActivePopup(popups)].root.groups # <<>>)
        => VisibleAsSpecified(popups[ActivePopup(popups)].root.groups)

\* C22 (Collapsed state is rendered from the store on every pass): after any
\* pass the content of a folder group is hidden if and only if the persisted
\* collapsed flag of that folder is true.
C22_CollapsedFromStore ==
    (last.op = "performSync" /\ ActivePopup(popups) # "none") =>
        \A k \in 1..Len(popups[ActivePopup(popups)].root.groups) :
            popups[ActivePopup(popups)].root.groups[k].id # Uncategorized =>
                /\ Has(folders, popups[ActivePopup(popups)].root.groups[k].id)
                /\ popups[ActivePopup(popups)].root.groups[k].collapsed
                       = folders[popups[ActivePopup(popups)].root.groups[k].id].collapsed

\* a pass has rendered a collapsed folder that holds a chat, beside an
\* expanded one: the view before the toggle showed both expanded
C22_Witness ==
    /\ last.op = "performSync"
    /\ ActivePopup(popups) # "none"
    /\ \E k, h \in 1..Len(popups[ActivePopup(popups)].root.groups) :
           /\ popups[ActivePopup(popups)].root.groups[k].id # Uncategorized
           /\ popups[ActivePopup(popups)].root.groups[k].collapsed
           /\ popups[ActivePopup(popups)].root.groups[k].count >= 1
           /\ popups[ActivePopup(popups)].root.groups[h].id # Uncategorized
           /\ ~popups[ActivePopup(popups)].root.groups[h].collapsed

---------------------------------------------------------------------------
(* Properties of the store operations *)

\* store g is store f with the collapsed flag of folder fid flipped and
\* nothing else changed
Flipped(f, g, fid) ==
    /\ DOMAIN g = DOMAIN f
    /\ \A x \in DOMAIN f :
           IF x = fid
           THEN /\ g[x].collapsed = ~f[x].collapsed
                /\ g[x].name = f[x].name
                /\ g[x].order = f[x].order
                /\ g[x].chats = f[x].chats
           ELSE g[x] = f[x]

\* every folder of f is in g with its collapsed flag
SameFlags(f, g) ==
    \A x \in DOMAIN f : Has(g, x) /\ g[x].collapsed = f[x].collapsed

\* C23 (Collapse and membership are independent): in every reachable store the
\* collapse toggle flips only the collapsed flag of its folder and leaves name,
\* order, chats, the other folders and the scope lists as they are; toggling
\* twice restores the store; moveChat, renameFolder and createFolder leave the
\* collapsed flag of every existing folder as it is.  The same holds of
\* toggleFolderCollapse and moveChatToFolder of v1.1.0.
C23_CollapseIndependent ==
    /\ \A fid \in DOMAIN folders :
           /\ Flipped(folders, toggleCollapsed(Settings, fid).folders, fid)
           /\ toggleCollapsed(Settings, fid).characterFolders = characterFolders
           /\ toggleCollapsed(toggleCollapsed(Settings, fid), fid).folders = folders
           /\ toggleCollapsed(toggleCollapsed(Settings, fid), fid).characterFolders
                  = characterFolders
           /\ Flipped(folders, toggleFolderCollapseV110(Settings, fid).folders, fid)
           /\ toggleFolderCollapseV110(Settings, fid).characterFolders = characterFolders
    /\ \A cid \in Scopes \cup {NoCharacter}, key \in Keys,
              target \in DOMAIN folders \cup {Uncategorized, generateId(nextId)} :
           /\ SameFlags(folders, moveChat(Settings, cid, key, target).folders)
           /\ SameFlags(folders, moveChatToFolder(Settings, cid, key, target).folders)
    /\ \A fid \in DOMAIN folders \cup {generateId(nextId)}, n \in PromptTexts :
           SameFlags(folders, renameFolder(Settings, fid, n).folders)
    /\ \A cid \in Scopes \cup {NoCharacter}, n \in PromptTexts :
           SameFlags(folders, createFolder(Settings, cid, generateId(nextId), n).folders)

\* the toggle has just collapsed one of two folders, the one that holds a chat
C23_Witness ==
    /\ last.op = "toggle"
    /\ \E fid, other \in DOMAIN folders :
           /\ folders[fid].collapsed /\ folders[fid].chats # <<>>
           /\ ~folders[other].collapsed

---------------------------------------------------------------------------
(* Properties of the triggers, checked under fair scheduling *)

\* the last step was a pass or a heartbeat tick, not a change by the host or
\* the user
Quiet == last.op \in {"performSync", "heartbeat"}

\* the popup is visible with a character selected
Watching == characterId # NoCharacter /\ ActivePopup(popups) # "none"

\* the proxy view shows exactly the keyed host chat blocks, each in the group
\* getFolderForChat gives it under the current store
Consistent ==
    /\ ActivePopup(popups) # "none"
    /\ Partitioned(popups[ActivePopup(popups)], Settings, characterId)

\* C24 (Eventual consistency): if the popup stays visible with a character
\* selected and from some point on neither the host nor the user changes
\* anything, then eventually the proxy view shows exactly the keyed host chat
\* blocks in their groups and stays so, also when the last host change was one
\* the observer did not see.
C24_EventuallyConsistent == <>[](Quiet /\ Watching) => <>[]Consistent

\* the popup the heartbeat looks at is visible and shows a number of proxies
\* other than the number of host chat blocks in it
Drifted ==
    /\ HeartbeatPopup(popups) # "none"
    /\ popups[HeartbeatPopup(popups)].displayed
    /\ Len(Proxies(popups[HeartbeatPopup(popups)]))
           # Len(popups[HeartbeatPopup(popups)].blocks)

\* C25 (Heartbeat drift check): a heartbeat tick calls scheduleSync if the
\* popup is visible and the number of proxies in the rendered view differs
\* from the number of host chat blocks in the popup, and requests nothing when
\* the two numbers are equal.
C25_HeartbeatDrift ==
    [][\A nativeCount \in 1..MaxChats + 1 :
           Heartbeat(nativeCount) => (Desynced(popups, nativeCount) <=> Drifted)]_vars

\* no popup was visible before the step and one is after it
BecomesVisible == ActivePopup(popups) = "none" /\ ActivePopup(popups') # "none"

\* the chat list of the visible popup is another after the step
ListChanges ==
    /\ ActivePopup(popups) # "none"
    /\ ActivePopup(popups') = ActivePopup(popups)
    /\ popups'[ActivePopup(popups)].blocks # popups[ActivePopup(popups)].blocks

\* C26 (Observer triggers): a step in which the popup becomes visible, by a
\* style or class change on it or by the host inserting or replacing the popup
\* element, and a step in which the children of the popup's item-list
\* container change, leaves a performSync timeout armed by scheduleSync.
C26_ObserverTriggers ==
    [][(BecomesVisible \/ ListChanges)
           => (syncDebounceTimer' # 0 /\ syncDebounceTimer' \in timeouts')]_vars

\* the step changes the store
StoreChanges == folders' # folders \/ characterFolders' # characterFolders

\* C27 (Every store change requests a reconciliation): a step of createFolder,
\* renameFolder, deleteFolder, moveChat or the collapse toggle that changes the
\* store leaves the performSync timeout armed by scheduleSync, and an armed
\* timeout is disarmed only by the pass it starts, so a pass follows the change.
C27_ChangeSchedules ==
    [][/\ StoreChanges => (syncDebounceTimer' # 0 /\ timeouts' = {syncDebounceTimer'})
       /\ (timeouts # {} /\ timeouts' = {}) => last'.op = "performSync"]_vars

\* a move has just put a chat into a folder and armed the timeout
C27_Witness ==
    /\ last.op = "moveChat"
    /\ timeouts = {syncDebounceTimer}
    /\ \E fid \in DOMAIN folders : folders[fid].chats # <<>>

\* C28 (No self-inflicted feedback loop): if from some point on neither the
\* host nor the user changes anything, the system reaches a state where no
\* performSync timeout is armed, and none is armed again.
C28_NoFeedbackLoop == <>[]Quiet => <>[](timeouts = {})

\* the pass that ran last faulted
Faulted == last.op = "performSync" /\ last.threw

\* C29 (A failed pass does not block later passes): after a pass that faulted
\* at any step, a handler that calls scheduleSync arms a performSync timeout,
\* and an armed timeout can fire and run performSync.
C29_FailedPassDoesNotBlock ==
    [][/\ (Faulted /\ last'.op \in {"CHAT_CHANGED", "hostShow", "hostHide"})
              => (syncDebounceTimer' # 0 /\ timeouts' = {syncDebounceTimer'})
       /\ (Faulted /\ timeouts # {}) => ENABLED TimerFires]_vars

\* a pass has faulted after it inserted #tmc_proxy_root and before it built
\* the proxies of the two host chats
C29_Witness ==
    /\ Faulted
    /\ ActivePopup(popups) # "none"
    /\ popups[ActivePopup(popups)].root.present
    /\ popups[ActivePopup(popups)].root.groups = <<>>
    /\ Len(popups[ActivePopup(popups)].blocks) = 2

\* C30 (Dangling folder ids are treated as absent): when the list of the
\* active character holds an id without a record in folders, showContextMenu
\* and performSync complete without throwing, getFolderForChat names no such
\* id, and the id makes no menu entry and no group.
C30_DanglingAbsent ==
    /\ last.op = "showContextMenu" =>
           /\ ~last.threw
           /\ menu.open
           /\ \A k \in 1..Len(menu.items) :
                  menu.items[k] = Uncategorized \/ Has(folders, menu.items[k])
    /\ (last.op = "performSync" /\ ActivePopup(popups) # "none") =>
           /\ ~last.threw
           /\ \A k \in 1..Len(popups[ActivePopup(popups)].root.groups) :
                  \/ popups[ActivePopup(popups)].root.groups[k].id = Uncategorized
                  \/ Has(folders, popups[ActivePopup(popups)].root.groups[k].id)
    /\ \A key \in Keys :
           \/ getFolderForChat(Settings, characterId, key) = Uncategorized
           \/ Has(folders, getFolderForChat(Settings, characterId, key))

---------------------------------------------------------------------------
(* v2.0.2 with a host that keeps both popups: #shadow_select_chat_popup and *)
(* #select_chat_popup, each shown and hidden on its own; every chat list   *)
(* sits in one .select_chat_block_wrapper                                  *)

BothPopups == {PopupIds[1], PopupIds[2]}

\* an interval tick that finds no popup, a popup that is not displayed, or a
\* first popup with no host chat block: none of the tests lets it reach
\* scheduleSync()
HeartbeatIdle ==
    /\ Bounded
    /\ IF HeartbeatPopup(popups) = "none" THEN TRUE
       ELSE \/ ~popups[HeartbeatPopup(popups)].displayed
            \/ popups[HeartbeatPopup(popups)].blocks = <<>>
    /\ Schedule(FALSE)
    /\ UNCHANGED version
    /\ last' = Ran("heartbeat", "", "", FALSE)
    /\ UNCHANGED <<folders, characterFolders, characterId, nextId, popups, menu, unsaved,
                   createdIn>>

\* an interval tick with the whole chat list in the first wrapper
HeartbeatWhole ==
    /\ HeartbeatPopup(popups) # "none"
    /\ Heartbeat(Len(popups[HeartbeatPopup(popups)].blocks))

NextBoth ==
    \/ \E c \in SyncCharacters : CharacterChanged(c)
    \/ \E id \in BothPopups : HostInsertPopup(id, FullLayout)
    \/ \E id \in BothPopups, list \in LiveLists : HostShowPopup(id, list)
    \/ \E id \in BothPopups : HostHidePopup(id)
    \/ \E id \in BothPopups, list \in LiveLists, seen \in BOOLEAN :
           HostRenderChats(id, list, seen)
    \/ TimerFires
    \/ HeartbeatWhole
    \/ HeartbeatIdle

SpecBoth == Init /\ [][NextBoth]_vars

---------------------------------------------------------------------------
(* Properties of the popup lookup *)

\* both popups exist and exactly one of them is displayed
OneOfTwoShown ==
    /\ \A id \in BothPopups : popups[id].exists
    /\ \E id \in BothPopups : popups[id].displayed
    /\ \E id \in BothPopups : ~popups[id].displayed

\* the displayed one of the two
TheShown == CHOOSE id \in BothPopups : popups[id].displayed

\* no popup exists or none is displayed
NoneShown == \A id \in BothPopups : ~Shown(id)

\* the popup shows a number of proxies other than its number of host blocks
DriftedIn(id) ==
    /\ popups[id].blocks # <<>>
    /\ Len(Proxies(popups[id])) # Len(popups[id].blocks)

\* the step is an interval tick
IsTick == HeartbeatWhole \/ HeartbeatIdle

\* C31 (Popup selection): when both popups exist and exactly one is
\* displayed, a performSync pass renders into the displayed one and leaves
\* the other as it was, and a heartbeat tick requests a pass exactly when the
\* displayed one has drifted; when no popup exists or none is displayed, a
\* pass and a tick change nothing in the DOM and request nothing.
C31_PopupSelection ==
    [][/\ (TimerFires /\ OneOfTwoShown)
              => /\ popups'[TheShown].root.present
                 /\ popups'[TheShown].addBtn
                 /\ \A id \in BothPopups \ {TheShown} : popups'[id] = popups[id]
       /\ (IsTick /\ OneOfTwoShown /\ timeouts = {})
              => (timeouts' # {} <=> DriftedIn(TheShown))
       /\ ((TimerFires \/ IsTick) /\ NoneShown)
              => (popups' = popups /\ timeouts' \subseteq timeouts)]_vars

---------------------------------------------------------------------------
(* v1.6.0 with one character and a host list that holds a block with a     *)
(* file_name, a block with a title only and a block with nothing           *)

KeyListV160 == <<Block("c1", "", "one"), Block("", "c2", ""), Block("", "", "")>>
KeyNamesV160 == {[ok |-> TRUE, text |-> <<"a">>]}

NextKeysV160 ==
    \/ characterId = NoCharacter /\ CharacterChangedV160("alice")
    \/ HostInsertPopupV160(FullLayout, TRUE)
    \/ HostShowPopupV160(KeyListV160)
    \/ HostHidePopupV160
    \/ \E kind \in TimeoutKinds : TimeoutV160(kind)
    \/ HeartbeatV160
    \/ \E n \in KeyNamesV160 : ClickAddBtnV160(n)
    \/ \E i \in Sections : ClickHeaderLeftV160(i)
    \/ \E i \in Sections, j \in 1..Len(KeyListV160) : ContextMenuV160(i, j)
    \/ \E k \in Sections : ClickMenuItemV160(k)
    \/ DocumentClickV160

SpecKeysV160 == InitV160 /\ [][NextKeysV160]_vars

---------------------------------------------------------------------------
(* Properties of the item keys *)

\* the key of a host chat block: its file_name attribute, else its title,
\* else its first text line
KeyOf(block) ==
    IF block.file_name # "" THEN block.file_name
    ELSE IF block.title # "" THEN block.title
    ELSE block.text

\* the positions of the groups that hold the block
GroupsHolding(groups, block) ==
    {k \in 1..Len(groups) : block \in Range(groups[k].items)}

\* C32 (Keyless items are excluded): a pass over a visible popup puts a host
\* chat block whose file_name, title and first text line are all empty into
\* no group and counts it nowhere, and does not throw; it puts a block with
\* any of the three non-empty into the group getFolderForChat gives for its
\* key, the attribute taken before the title and the title before the text.
C32_KeylessExcluded ==
    [][(/\ last'.op \in PassOpsV160
        /\ OnScreenV160 /\ popups[PopupV160].wrapper
        /\ characterId # NoCharacter)
       => /\ ~last'.threw
          /\ \A block \in Range(popups[PopupV160].blocks) :
                 IF KeyOf(block) = ""
                 THEN GroupsHolding(popups'[PopupV160].root.groups, block) = {}
                 ELSE \E k \in GroupsHolding(popups'[PopupV160].root.groups, block) :
                          popups'[PopupV160].root.groups[k].id
                              = getFolderForChat(Settings', characterId, KeyOf(block))
          /\ \A k \in 1..Len(popups'[PopupV160].root.groups) :
                 popups'[PopupV160].root.groups[k].count
                     = Cardinality({j \in 1..Len(popups'[PopupV160].root.groups[k].items) :
                           KeyOf(popups'[PopupV160].root.groups[k].items[j]) # ""})]_vars

---------------------------------------------------------------------------
(* SETTINGS: getSettings() over what the host has stored under MODULE_NAME. *)
(* The variables folders, characterFolders and version hold the stored     *)
(* values of the three keys; Absent and "" stand for a key that is missing. *)
(* A root with no key stands for both a missing root and an empty object:  *)
(* the first is replaced by a clone of defaultSettings, the second filled   *)
(* key by key, with the same result.                                       *)

Absent == [undefined |-> TRUE]

defaultSettings == [folders |-> <<>>, characterFolders |-> <<>>, version |-> "2.0.2"]
defaultSettingsV110 == [folders |-> <<>>, characterFolders |-> <<>>, version |-> "1.1.0"]

\* extensionSettings[MODULE_NAME]: the keys that are stored, with their values
StoredRoot ==
    LET all == [folders |-> folders, characterFolders |-> characterFolders,
                version |-> version]
        Stored(k) == all[k] # (IF k = "version" THEN "" ELSE Absent)
    IN  [k \in {k \in DOMAIN all : Stored(k)} |-> all[k]]

\* a getSettings() that resets the root to the defaults
ResetDefaults(root, defaults) == defaults

\* if (!root) root = structuredClone(defaults); for (key of Object.keys(defaults))
\*     if (!Object.hasOwn(root, key)) root[key] = structuredClone(defaults[key])
EnsureDefaults(root, defaults) ==
    LET made == IF DOMAIN root = {} THEN defaults ELSE root
    IN  [k \in DOMAIN made \cup DOMAIN defaults |->
            IF k \in DOMAIN made THEN made[k] ELSE defaults[k]]

getSettings(root) == EnsureDefaults(root, defaultSettings)

getSettingsV110(root) == EnsureDefaults(root, defaultSettingsV110)

\* what the host may have stored for each key: nothing, an empty object, or
\* what an earlier session or release wrote
StoredFolders ==
    {Absent, <<>>,
     [id \in {"folder_1"} |->
         [name |-> <<"a">>, chats |-> <<"c1">>, collapsed |-> FALSE, order |-> 0]],
     [id \in {"folder_1"} |->
         [name |-> <<"a">>, chats |-> <<>>, collapsed |-> TRUE, order |-> 0]],
     [id \in {"folder_1", "folder_2"} |->
         [name |-> <<"a">>, chats |-> <<>>, collapsed |-> FALSE,
          order |-> IF id = "folder_1" THEN 0 ELSE 1]]}

StoredCharacterFolders ==
    {Absent, <<>>,
     [c \in {"alice"} |-> <<"folder_1">>],
     [c \in {"alice"} |-> <<"folder_1", "folder_2">>],
     [c \in {"alice", "bob"} |-> IF c = "alice" THEN <<"folder_1">> ELSE <<"folder_2">>]}

StoredVersions == {"", "1.1.0", "1.6.0", "2.0.2", "2.1.0"}

InitStored ==
    /\ folders \in StoredFolders
    /\ characterFolders \in StoredCharacterFolders
    /\ version \in StoredVersions
    /\ characterId = NoCharacter
    /\ nextId = 0
    /\ popups = [id \in {PopupIds[1], PopupIds[2]} |-> NoPopup]
    /\ menu = NoMenu
    /\ syncDebounceTimer = 0
    /\ burst = 0
    /\ unsaved = FALSE
    /\ timeouts = {}
    /\ createdIn = <<>>
    /\ last = [op |-> "load", threw |-> FALSE]

\* the three keys as a call of getSettings leaves them
Got(settings) ==
    /\ folders' = settings.folders
    /\ characterFolders' = settings.characterFolders
    /\ version' = settings.version
    /\ UNCHANGED <<characterId, nextId, popups, menu, syncDebounceTimer, burst, unsaved,
                   timeouts, createdIn>>

\* a handler of v2.0.2 starts with const settings = getSettings()
GetSettings ==
    /\ Got(getSettings(StoredRoot))
    /\ last' = Ran("getSettings", "", "", FALSE)

\* the same in v1.1.0
GetSettingsV110 ==
    /\ Got(getSettingsV110(StoredRoot))
    /\ last' = Ran("getSettings", "", "", FALSE)

NextSettings ==
    \/ GetSettings
    \/ GetSettingsV110

SpecSettings == InitStored /\ [][NextSettings]_vars

---------------------------------------------------------------------------
(* Properties of getSettings *)

\* root b has every key of root a with a's value
Keeps(a, b) == \A k \in DOMAIN a : k \in DOMAIN b /\ b[k] = a[k]

\* C33 (Additive defaults): getSettings leaves a root that has the keys
\* folders, characterFolders and version, each key that was stored with the
\* value that was stored (an older version included) and each key that was
\* missing with its default; a second call changes nothing.
C33_AdditiveDefaults ==
    [][\A defaults \in {defaultSettings, defaultSettingsV110} :
           ((defaults = defaultSettings /\ GetSettings)
                \/ (defaults = defaultSettingsV110 /\ GetSettingsV110))
           => /\ DOMAIN StoredRoot' = DOMAIN StoredRoot \cup DOMAIN defaults
              /\ Keeps(StoredRoot, StoredRoot')
              /\ \A k \in DOMAIN defaults \ DOMAIN StoredRoot :
                     StoredRoot'[k] = defaults[k]
              /\ EnsureDefaults(StoredRoot', defaults) = StoredRoot']_vars

\* a root stored by v1.1.0 without characterFolders has been read
C33_Witness ==
    /\ last.op = "getSettings"
    /\ version = "1.1.0"
    /\ folders # <<>>
    /\ characterFolders = <<>>

---------------------------------------------------------------------------
(* Properties of renaming, checked under Spec *)

---------------------------------------------------------------------------
(* Properties of scope isolation of the handlers, checked under Spec *)

\* the folder ids listed under scope S
ListedIn(S) == Range(ListOr(characterFolders, S))

\* C35 (A folder is editable only while its scope is active): a step taken
\* while scope B or no scope is active leaves every folder that is listed
\* under another scope A, and not under B, with its record as it was: name,
\* collapsed flag, chats and existence.
C35_EditableWhileActive ==
    [][\A A \in Scopes \ {characterId} :
           \A fid \in ListedIn(A) \ ListedIn(characterId) :
               Has(folders, fid) => (Has(folders', fid) /\ folders'[fid] = folders[fid])]_vars

---------------------------------------------------------------------------
(* v1.6.0 with a host that renders its chat list in several tasks: each    *)
(* task's mutations reach the observer callback in a call of its own, and  *)
(* each call that finds the popup displayed without a .tmc_root calls      *)
(* setTimeout(buildUI, 100) again; no handle is kept and none is cleared.  *)

BurstListsV160 == {<<Block("c1", "", "one")>>,
                   <<Block("c1", "", "one"), Block("c2", "", "two")>>}

\* the callback kinds of the timeouts the observer has pending at once
ObserverKinds == {"observer", "observer2"}

\* the observer callback when a timeout of an earlier call may be pending
ObserverAgainV160(p, pending) ==
    IF ~(p.exists /\ p.displayed /\ ~p.root.present) THEN pending
    ELSE IF "observer" \in pending THEN pending \cup {"observer2"}
    ELSE pending \cup {"observer"}

\* the host replaces the loose chat blocks of the wrapper while the popup is
\* displayed
HostRenderChatsV160(list) ==
    /\ OnScreenV160 /\ popups[PopupV160].wrapper
    /\ list # popups[PopupV160].blocks
    /\ popups' = [popups EXCEPT ![PopupV160].blocks = list]
    /\ timeouts' = ObserverAgainV160(popups'[PopupV160], timeouts)
    /\ UNCHANGED version
    /\ last' = Ran("hostRender", "", "", FALSE)
    /\ UNCHANGED <<folders, characterFolders, characterId, nextId, menu,
                   syncDebounceTimer, burst, unsaved, createdIn>>

NextBurstV160 ==
    \/ characterId = NoCharacter /\ CharacterChangedV160("alice")
    \/ HostInsertPopupV160(FullLayout, TRUE)
    \/ \E list \in BurstListsV160 : HostShowPopupV160(list)
    \/ HostHidePopupV160
    \/ \E list \in BurstListsV160 : HostRenderChatsV160(list)
    \/ \E kind \in TimeoutKinds \cup ObserverKinds : TimeoutV160(kind)
    \/ HeartbeatV160

SpecBurstV160 == InitV160 /\ [][NextBurstV160]_vars

---------------------------------------------------------------------------
(* Properties of the v1.6.0 triggers *)

\* C36 (Burst coalescing, v1.6.0): the mutations the observer sees while the
\* popup is visible without a .tmc_root lead to one buildUI pass: at no time
\* are two buildUI timeouts of the observer pending.
C36_BurstCoalesced == ~(ObserverKinds \subseteq timeouts)

---------------------------------------------------------------------------
(* v1.1.0 with one character and a host whose chat list loses a chat: the   *)
(* user deletes chat c2 in the host, which then renders c1 alone            *)

GoneListsV110 == {HostListV110, <<Block("c1", "", "one")>>}

NextGoneV110 ==
    \/ characterId = NoCharacter /\ CharacterChangedV110("alice")
    \/ HostInsertPopupV110(FullLayout)
    \/ \E list \in GoneListsV110 : HostShowPopupV110(list)
    \/ HostHidePopupV110
    \/ \E kind \in TimeoutKinds : TimeoutV110(kind)
    \/ \E n \in HostNamesV110 : ClickManageBtnV110(n)
    \/ \E j \in 1..Len(HostListV110) : ContextMenuV110(j)
    \/ \E k \in Sections : ClickMenuItemV110(k)

SpecGoneV110 == InitV110 /\ [][NextGoneV110]_vars

---------------------------------------------------------------------------
(* Properties of the v1.1.0 badges *)

\* C37 (Per-group counts, v1.1.0): after a pass of
\* injectFoldersIntoChatHistory every folder section's badge equals the number
\* of host chat blocks placed in that section, whatever keys the folder's
\* chats list holds.
C37_BadgeCounts ==
    last.op \in {"inject", "createFolder", "renameFolder", "deleteFolder", "moveChat",
                 "toggle"} =>
        \A i \in 1..Len(popups[PopupV110].sections) :
            IsFolderSection(popups[PopupV110].sections[i]) =>
                popups[PopupV110].sections[i].badge
                    = Len(popups[PopupV110].sections[i].items)

---------------------------------------------------------------------------
(* v2.0.2 with a store that holds folders and passes that complete, return *)
(* early or fault                                                          *)

NextFaultStore ==
    \/ \E c \in SyncCharacters : CharacterChanged(c)
    \/ \E id \in HostPopups : HostInsertPopup(id, FullLayout)
    \/ \E id \in HostPopups, list \in LiveLists : HostShowPopup(id, list)
    \/ \E id \in HostPopups : HostHidePopup(id)
    \/ TimerFires
    \/ \E step \in FaultSteps : PassFaults(step)
    \/ \E id \in HostPopups, n \in SyncPrompts : ClickAddBtn(id, n)
    \/ \E id \in HostPopups, i \in Sections : ClickHeaderLeft(id, i)
    \/ \E id \in HostPopups, i \in Sections, j \in 1..MaxChats : ContextMenu(id, i, j)
    \/ \E k \in Sections : ClickMenuItem(k)

SpecFaultStore == Init /\ [][NextFaultStore]_vars

---------------------------------------------------------------------------
(* Properties of the passes as readers of the store *)

---------------------------------------------------------------------------
(* Properties of moves across scopes, checked under Spec *)

\* C39 (A move stays inside the active scope): a moveChat run from the
\* context menu while scope B is active leaves the chats list of every folder
\* that is listed under another scope, and not under B, as it was, whichever
\* folder the key is in and whenever the menu was built.
C39_MoveInScope ==
    [][\A k \in Sections :
           ClickMenuItem(k) =>
               \A A \in Scopes \ {characterId} :
                   \A fid \in ListedIn(A) \ ListedIn(characterId) :
                       Has(folders, fid) =>
                           /\ Has(folders', fid)
                           /\ folders'[fid].chats = folders[fid].chats]_vars

=============================================================================
